---- MODULE Spec2Model ----
(***************************************************************************)
(* Model of the football-predictions dashboard:                            *)
(*   - FilterManager, FilterPresetManager, DataManager and                  *)
(*     FootballAnalyticsApp of the main controller (src/unnamed/part_000), *)
(*   - ChartsManager (src/for markos only/charts.js),                      *)
(*   - the "Statistical Analysis Pro" dashboard (src/unnamed/part_001).    *)
(*                                                                         *)
(* JavaScript values are modelled as follows.                              *)
(*   string     a sequence of text pieces; a piece is one character, or    *)
(*              one of the longer pieces named below (Marker, the query    *)
(*              atoms); the texts searched hold one-character pieces only, *)
(*              and no atom holds the marker, so that a substring test     *)
(*              piece by piece agrees with the test character by character *)
(*   null       the model value Null, undefined the model value Undef      *)
(*   Date       the number of the day (local midnight), NaN as NaNDate     *)
(***************************************************************************)
EXTENDS Integers, Sequences, FiniteSets, TLC

VARIABLES
    \* main controller (part_000)
    pc,               \* where FootballAnalyticsApp.init stands
    loading,          \* the element 'loading' is displayed
    fetchResult,      \* how DataManager.fetchMatches ended: "none" while it
                      \* has not, "loaded" or "failed"
    responseData,     \* the document the last response.json() resolved with,
                      \* undefined before any has
    errorShown,       \* the message the element 'error' displays, or "none"
    metricsData,      \* METRICS_DATA
    allMatches,       \* AppState.allMatches
    loads,            \* the loadData calls made after init, in the order of
                      \* their start: how far each has come, and what it
                      \* delivered
    listeners,        \* the groups of event listeners installed
    charts,           \* ChartsManager.charts: the ids of the canvases that
                      \* have a chart, once initialize has returned
    chartData,        \* the data of the datasets createAllCharts built last
    divisionOptions,  \* option values of the control division-filter
    currentTab,       \* AppState.currentTab
    currentFilters,   \* FilterManager.currentFilters
    form,             \* values of the controls search-input, division-filter,
                      \* date-from and date-to
    currentDate,      \* today at midnight, as categorizeMatches reads it
    categorized,      \* outcome of the last categorizeMatches call
    filtered,         \* outcome of the last applyFilters calls, per category
    evalLog,          \* the query texts those calls handed to eval
    lastEvent,        \* the listener of the filter controls, of the Clear
                      \* button or of the tabs that ran last, "none" before any
    clock,            \* the time, in milliseconds
    searchTimer,      \* `timeout` of the debounced listener of search-input:
                      \* the timer that is pending, or NoTimer
    debounceLog,      \* the calls of the debounced listener and the runs of
                      \* the function it wraps, in their order
    chartInstances,   \* the Chart instances of the main page that have not
                      \* been destroyed, ChartsManager.charts (the registry),
                      \* and the canvases an instance of which was destroyed
    dashChartInstances, \* the same for the dashboard and its `charts`
    elements,         \* the ids of the elements the document holds
    uncaught,         \* the methods whose exception left an event handler or
                      \* a promise without being caught
    \* presets
    storage,          \* localStorage item 'football_filter_presets'
    presetOptions,    \* option values of the control preset-select
    presetSelected,   \* value of the control preset-select, "" for none
    lastSaved,        \* name and criteria of the last FilterPresetManager.save
    lastDeleted,      \* names deleted since they were last saved
    \* dashboard (part_001)
    dpc,              \* where the DOMContentLoaded handler stands
    overlay,          \* the loading overlay is shown
    footballData,     \* footballData
    filteredData,     \* filteredData
    dashForm,         \* values of the dashboard's filter controls
    timers,           \* the callbacks setTimeout holds, in firing order
    dashStats         \* the aggregates the dashboard computed

appRest == <<pc, loading, fetchResult, responseData, errorShown, metricsData,
             listeners, charts, chartData, divisionOptions, currentTab, loads>>
appVars == <<appRest, allMatches>>
filterVars == <<currentFilters, form, filtered, evalLog, lastEvent>>
catVars == <<currentDate, categorized>>
presetVars == <<storage, presetOptions, presetSelected, lastSaved, lastDeleted>>
dashVars == <<dpc, overlay, footballData, filteredData, dashForm, timers,
              dashStats>>
pageVars == <<elements, uncaught>>
timeVars == <<clock, searchTimer, debounceLog>>
chartVars == <<chartInstances, dashChartInstances>>

vars == <<appVars, filterVars, catVars, presetVars, dashVars, pageVars, timeVars,
          chartVars>>

\* JavaScript null, undefined and numbers, tagged so that they can be compared
Null == [tag |-> "null"]
Undef == [tag |-> "undefined"]
Num(n) == [tag |-> "number", v |-> n]

\* A JavaScript string where it stands beside values of other types
Str(s) == [tag |-> "string", s |-> s]

\* Size of the match collections the checks enumerate.
MaxMatches == 2

\* Number of loadData calls made after init.
MaxLoads == 2

-----------------------------------------------------------------------------
(* Strings *)

\* The reserved marker of the advanced search, the two characters q and :
Marker == "q:"

\* Query atoms: pieces of JavaScript text.  The first eight are the queries
\* of the built-in presets, in the order of getDefaultPresets.
AtomGoalsDominant == "Object.values(models).some(model=>(model.H > 2 && model.A < 1) || (model.A > 2 && model.H < 1))"
AtomWinDominant == "Object.values(models).some(model=>model[1] > 0.8 || model[2] > 0.8)"
AtomSameMax == "<newline> const allSameMax = obj => {...}; <newline> allSameMax(models)"
AtomBtts == "Object.values(models).every(model=>model.H > 1.3 && model.A > 1.3)"
AtomFusball == "Object.values(models).every(model=>model.H + model.A > 3.5)"
AtomGoalsAgree == "Object.values(models).every(model => Math.round(model.H) == Math.round(models[0].H) && Math.round(model.A) == Math.round(models[0].A))"
AtomHighDraw == "Object.values(models).some(model=>model.X > 0.7)"
AtomWinAgree == "Object.values(models).every(model => model[1] > 0.6499) || (the same of X) || (the same of 2)"
AtomTrue == "true"
AtomFalse == "false"
AtomNope == "nope"
AtomRfDraw == "models.rf.X > 0.7"
AtomSetDraw == "models.rf.X = 0.8"

\* String.prototype.toLowerCase, piece by piece
LowerPiece(c) ==
    CASE c = "A" -> "a"
      [] c = "B" -> "b"
      [] c = AtomGoalsDominant -> "object.values(models).some(model=>(model.h > 2 && model.a < 1) || (model.a > 2 && model.h < 1))"
      [] c = AtomWinDominant -> "object.values(models).some(model=>model[1] > 0.8 || model[2] > 0.8)"
      [] c = AtomSameMax -> "<newline> const allsamemax = obj => {...}; <newline> allsamemax(models)"
      [] c = AtomBtts -> "object.values(models).every(model=>model.h > 1.3 && model.a > 1.3)"
      [] c = AtomFusball -> "object.values(models).every(model=>model.h + model.a > 3.5)"
      [] c = AtomGoalsAgree -> "object.values(models).every(model => math.round(model.h) == math.round(models[0].h) && math.round(model.a) == math.round(models[0].a))"
      [] c = AtomHighDraw -> "object.values(models).some(model=>model.x > 0.7)"
      [] c = AtomWinAgree -> "object.values(models).every(model => model[1] > 0.6499) || (the same of x) || (the same of 2)"
      [] c = AtomRfDraw -> "models.rf.x > 0.7"
      [] OTHER -> c

ToLowerCase(s) == [i \in 1..Len(s) |-> LowerPiece(s[i])]

\* s.includes(t) for a one-piece t
IncludesPiece(s, p) == \E i \in 1..Len(s) : s[i] = p

\* s.includes(t)
Includes(s, t) ==
    \E i \in 0..(Len(s) - Len(t)) : SubSeq(s, i + 1, i + Len(t)) = t

\* Position of the first occurrence of piece p in s, 0 when there is none
IndexOfPiece(s, p) ==
    IF IncludesPiece(s, p)
    THEN CHOOSE i \in 1..Len(s) : s[i] = p /\ \A j \in 1..(i - 1) : s[j] # p
    ELSE 0

\* s.split(p) for a one-piece separator p: the list of the parts
RECURSIVE SplitPiece(_, _)
SplitPiece(s, p) ==
    LET i == IndexOfPiece(s, p) IN
    IF i = 0 THEN <<s>>
    ELSE <<SubSeq(s, 1, i - 1)>> \o SplitPiece(SubSeq(s, i + 1, Len(s)), p)

-----------------------------------------------------------------------------
(* Dates *)

\* A Date is [tag |-> "date", t |-> day number]; an invalid Date is NaNDate
NaNDate == [tag |-> "nan"]
DateAt(n) == [tag |-> "date", t |-> n]

IsLeap(y) == (y % 4 = 0 /\ y % 100 # 0) \/ y % 400 = 0

DaysInMonth(y, m) ==
    IF m = 2 THEN (IF IsLeap(y) THEN 29 ELSE 28)
    ELSE IF m \in {4, 6, 9, 11} THEN 30 ELSE 31

RECURSIVE DaysBeforeMonth(_, _)
DaysBeforeMonth(y, m) ==
    IF m <= 1 THEN 0 ELSE DaysBeforeMonth(y, m - 1) + DaysInMonth(y, m - 1)

\* new Date(year, monthIndex, day): the day number of local midnight of that
\* day, counted from 1 January 2024; a day past the month's end runs on into
\* the next month, as the Date constructor has it.  monthIndex in 0..11.
NewDate(year, monthIndex, day) ==
  DateAt(
    (IF year > 2024 THEN (year - 2024) * 365 + ((year - 2024) + 3) \div 4 ELSE 0)
    + DaysBeforeMonth(year, monthIndex + 1) + day)

\* a < b and a > b on Dates: every comparison with NaN is false
DateLess(a, b) == a.tag = "date" /\ b.tag = "date" /\ a.t < b.t
DateGreater(a, b) == a.tag = "date" /\ b.tag = "date" /\ a.t > b.t

\* Utils.parseDate, the branch taken without 'odds' in the query string:
\* matchId.split('-'), modelled by the list of the parts, and the fields
\* counted from the end.  A part that is no number makes the Date invalid.
ParseDate(matchId) ==
    LET dateSplit == matchId
        n == Len(dateSplit)
        year == dateSplit[n - 4]
        month == dateSplit[n - 3]
        day == dateSplit[n - 2]
    IN IF year.tag = "number" /\ month.tag = "number" /\ day.tag = "number"
       THEN NewDate(year.v, month.v - 1, day.v)
       ELSE NaNDate

-----------------------------------------------------------------------------
(* Match records of the main controller *)

Range(s) == {s[i] : i \in 1..Len(s)}

\* All lists of at most n distinct elements of S
RECURSIVE ListsOver(_, _)
ListsOver(S, n) ==
    IF n = 0 THEN {<<>>}
    ELSE LET shorter == ListsOver(S, n - 1) IN
         shorter \cup {Append(l, x) : l \in shorter, x \in S}

DistinctLists(S, n) ==
    {l \in ListsOver(S, n) : \A i, j \in 1..Len(l) : l[i] = l[j] => i = j}

\* One entry of the document's "model-predictions" object, as parseMatchData
\* keeps it.  Probabilities and expected goals are in tenths; MatchId is the
\* list of the parts between its dashes.
MkMatch(id, div, home, away, y, m, d, date, fthg, ftag, models) ==
    [id |-> id,
     info |-> [Home |-> home, Away |-> away, Div |-> div,
               MatchId |-> <<Str(div), Num(y), Num(m), Num(d), Str(home),
                             Str(away)>>,
               Date |-> date, FTHG |-> fthg, FTAG |-> ftag],
     models |-> models]

Pred(p1, pX, p2, h, a) == [p1 |-> p1, X |-> pX, p2 |-> p2, H |-> h, A |-> a]

-----------------------------------------------------------------------------
(* FilterManager *)

\* The value 'all' of the division control
All == <<"a", "l", "l">>

\* FilterManager's constructor, and what clearFilters assigns
EmptyFilters == [search |-> <<>>, division |-> All, dateFrom |-> <<>>, dateTo |-> <<>>]

\* Outcome of evaluating JavaScript text: a value (of which only its truthiness
\* matters to Array.prototype.filter) or a thrown error
Value(truthy) == [kind |-> "value", truthy |-> truthy]
Throw == [kind |-> "throw"]

\* text with its white space removed
RECURSIVE StripSpaces(_)
StripSpaces(s) ==
    IF s = <<>> THEN <<>>
    ELSE (IF Head(s) = " " THEN <<>> ELSE <<Head(s)>>) \o StripSpaces(Tail(s))

\* keys.reduce((a,b) => v[a] > v[b] ? a : b) over the keys '1', 'X', '2'
MaxKey(v) ==
    LET first == IF v.p1 > v.X THEN "1" ELSE "X"
        firstValue == IF first = "1" THEN v.p1 ELSE v.X
    IN IF firstValue > v.p2 THEN first ELSE "2"

\* The value of one atom with `models` in scope (values in tenths)
EvalAtom(models, atom) ==
    LET names == DOMAIN models IN
    CASE atom = AtomTrue -> Value(TRUE)
      [] atom = AtomFalse -> Value(FALSE)
      [] atom = AtomGoalsDominant ->
            Value(\E n \in names : \/ (models[n].H > 20 /\ models[n].A < 10)
                                   \/ (models[n].A > 20 /\ models[n].H < 10))
      [] atom = AtomWinDominant ->
            Value(\E n \in names : models[n].p1 > 8 \/ models[n].p2 > 8)
      [] atom = AtomSameMax ->
            Value(\A n, k \in names : MaxKey(models[n]) = MaxKey(models[k]))
      [] atom = AtomBtts ->
            Value(\A n \in names : models[n].H > 13 /\ models[n].A > 13)
      [] atom = AtomFusball ->
            Value(\A n \in names : models[n].H + models[n].A > 35)
      [] atom = AtomGoalsAgree ->
            \* models[0] is undefined, the mapping being keyed by model name:
            \* reading its H throws as soon as the callback runs
            IF names = {} THEN Value(TRUE) ELSE Throw
      [] atom = AtomHighDraw ->
            Value(\E n \in names : models[n].X > 7)
      [] atom = AtomWinAgree ->
            Value(\/ \A n \in names : models[n].p1 >= 7
                  \/ \A n \in names : models[n].X >= 7
                  \/ \A n \in names : models[n].p2 >= 7)
      [] atom = AtomRfDraw ->
            IF "rf" \in names THEN Value(models["rf"].X > 7) ELSE Throw
      [] atom = AtomSetDraw ->
            \* the value of an assignment is the value assigned
            IF "rf" \in names THEN Value(TRUE) ELSE Throw
      [] OTHER -> Throw

\* eval(query) with `models` in scope.  White space apart, the empty text
\* evaluates to undefined and a single atom to its value.  AtomSameMax begins
\* with a line break, so after one atom it is a second statement, whose value
\* is the result once the first atom has been evaluated.  Every other text
\* over the pieces of this model is an error: an identifier that is not
\* defined (a, b, nope, truefalse), a call of a value that is no function, or
\* a syntax error.
EvalQuery(models, query) ==
    LET text == StripSpaces(query) IN
    IF text = <<>> THEN Value(FALSE)
    ELSE IF Len(text) = 1 THEN EvalAtom(models, text[1])
    ELSE IF Len(text) = 2 /\ text[2] = AtomSameMax
         THEN (IF EvalAtom(models, text[1]).kind = "throw" THEN Throw
               ELSE EvalAtom(models, AtomSameMax))
    ELSE Throw

\* The object `models` once eval(query) has run: an assignment to a property
\* of a model writes to the prediction the match holds
EvalEffect(models, query) ==
    LET text == StripSpaces(query) IN
    IF /\ text # <<>>
       /\ text[1] = AtomSetDraw
       /\ Len(text) = 1 \/ (Len(text) = 2 /\ text[2] = AtomSameMax)
       /\ "rf" \in DOMAIN models
    THEN [models EXCEPT !["rf"].X = 8]
    ELSE models

\* FilterManager.applyAdvancedFilters
ApplyAdvancedFilters(models, query) == EvalQuery(models, query)

\* A catch block that drops the match instead
CatchReturnsFalse == FALSE

\* What the catch block of the search filter returns
CatchReturns == TRUE

\* Whether the callback takes the advanced-search branch
IsAdvancedSearch(filters) ==
    filters.search # <<>> /\ IncludesPiece(filters.search, Marker)

\* The text the callback hands to applyAdvancedFilters: search.split("q:")[1]
AdvancedQuery(filters) == SplitPiece(filters.search, Marker)[2]

\* `${matchInfo.Home} ${matchInfo.Away} ${matchInfo.Div}`
SearchText(matchInfo) ==
    matchInfo.Home \o <<" ">> \o matchInfo.Away \o <<" ">> \o matchInfo.Div

\* new Date(date[0], date[1]-1, date[2]) of a control value 'YYYY-MM-DD',
\* which the model holds as <<year, month, day>>
ControlDate(value) == NewDate(value[1], value[2] - 1, value[3])

\* The advanced search of one match: the value of the query, true when its
\* evaluation throws
PassesAdvancedSearch(match, filters) ==
    LET r == ApplyAdvancedFilters(match.models, AdvancedQuery(filters)) IN
    IF r.kind = "throw" THEN CatchReturns ELSE r.truthy

\* The record of a match once the callback of applyFilters has run on it
AfterFilter(match, filters) ==
    IF IsAdvancedSearch(filters)
    THEN [match EXCEPT !.models = EvalEffect(match.models, AdvancedQuery(filters))]
    ELSE match

\* The free-text search of one match
PassesTextSearch(matchInfo, filters) ==
    filters.search # <<>>
    => Includes(ToLowerCase(SearchText(matchInfo)), ToLowerCase(filters.search))

\* A division filter for which 'all' is a division like any other
PassesDivisionExact(matchInfo, filters) == matchInfo.Div = filters.division

\* The division filter
PassesDivision(matchInfo, filters) ==
    ~(filters.division # All /\ matchInfo.Div # filters.division)

\* The date filters
PassesDateFrom(matchInfo, filters) ==
    filters.dateFrom # <<>>
    => ~DateLess(ParseDate(matchInfo.MatchId), ControlDate(filters.dateFrom))

PassesDateTo(matchInfo, filters) ==
    filters.dateTo # <<>>
    => ~DateGreater(ParseDate(matchInfo.MatchId), ControlDate(filters.dateTo))

\* The callback applyFilters hands to Array.prototype.filter
FilterCallback(match, filters) ==
    LET matchInfo == match.info IN
    IF IsAdvancedSearch(filters) THEN PassesAdvancedSearch(match, filters)
    ELSE IF ~PassesTextSearch(matchInfo, filters) THEN FALSE
    ELSE IF ~PassesDivision(matchInfo, filters) THEN FALSE
    ELSE IF ~PassesDateFrom(matchInfo, filters) THEN FALSE
    ELSE IF ~PassesDateTo(matchInfo, filters) THEN FALSE
    ELSE TRUE

\* FilterManager.applyFilters, with this.currentFilters as `filters`:
\* Array.prototype.filter with the callback above
ApplyFilters(ms, filters) ==
    LET Test(match) == FilterCallback(match, filters) IN SelectSeq(ms, Test)

\* The texts one applyFilters call hands to eval
EvalTexts(ms, filters) ==
    IF ms # <<>> /\ IsAdvancedSearch(filters) THEN {AdvancedQuery(filters)} ELSE {}

\* FilterManager.updateFiltersFromForm, given the values of the four controls
UpdateFiltersFromForm(controls) ==
    [search |-> controls.search,
     division |-> IF controls.division = <<>> THEN All ELSE controls.division,
     dateFrom |-> controls.dateFrom,
     dateTo |-> controls.dateTo]

-----------------------------------------------------------------------------
(* Numbers: Math.round((correct / total) * 100) in IEEE 754 double precision, *)
(* for counts 0 <= correct <= total < 4096, total > 0                         *)

\* The 53 digits of a significand are held in four pieces: the leading digit
\* and the following 18, 18 and 16 digits.
Wide == 262144      \* 2^18
Narrow == 65536     \* 2^16

\* The exponent of correct / total, negated: the least f with
\* correct * 2^f >= total, so that 2^(-f) <= correct / total < 2^(1 - f)
ExponentOf(correct, total) ==
    CHOOSE f \in 0..12 :
        /\ correct * 2^f >= total
        /\ f > 0 => correct * 2^(f - 1) < total

\* A significand 1.d1 d2 d3 raised by one unit in its last place; `carry`
\* tells that it has become 2.0
RaiseSignificand(d1, d2, d3) ==
    IF d3 + 1 < Narrow THEN [d1 |-> d1, d2 |-> d2, d3 |-> d3 + 1, carry |-> FALSE]
    ELSE IF d2 + 1 < Wide THEN [d1 |-> d1, d2 |-> d2 + 1, d3 |-> 0, carry |-> FALSE]
    ELSE IF d1 + 1 < Wide THEN [d1 |-> d1 + 1, d2 |-> 0, d3 |-> 0, carry |-> FALSE]
    ELSE [d1 |-> 0, d2 |-> 0, d3 |-> 0, carry |-> TRUE]

\* correct / total: the double nearest to the quotient, ties to even.  The
\* quotient is 2^(-f) * 1.d1 d2 d3 ..., got by long division; the remainder
\* left after 52 digits decides the rounding.
Divide(correct, total) ==
    IF correct = 0 THEN [zero |-> TRUE]
    ELSE LET f == ExponentOf(correct, total)
             r0 == correct * 2^f - total
             d1 == (r0 * Wide) \div total
             r1 == (r0 * Wide) % total
             d2 == (r1 * Wide) \div total
             r2 == (r1 * Wide) % total
             d3 == (r2 * Narrow) \div total
             r3 == (r2 * Narrow) % total
             up == 2 * r3 > total \/ (2 * r3 = total /\ d3 % 2 = 1)
             raised == RaiseSignificand(d1, d2, d3)
         IN IF ~up THEN [zero |-> FALSE, f |-> f, d1 |-> d1, d2 |-> d2, d3 |-> d3]
            ELSE IF raised.carry
                 THEN [zero |-> FALSE, f |-> f - 1, d1 |-> 0, d2 |-> 0, d3 |-> 0]
            ELSE [zero |-> FALSE, f |-> f, d1 |-> raised.d1, d2 |-> raised.d2,
                  d3 |-> raised.d3]

\* x * 100: the double nearest to the product, ties to even.  The exact
\* product is 2^(-f) * (top + low1/2^18 + low2/2^36 + low3/2^52) with top in
\* 100..199, of 59 or 60 digits; its last 6 or 7 digits are rounded away.
TimesHundred(x) ==
    IF x.zero THEN [zero |-> TRUE]
    ELSE LET p3 == 100 * x.d3
             low3 == p3 % Narrow
             p2 == 100 * x.d2 + p3 \div Narrow
             low2 == p2 % Wide
             p1 == 100 * x.d1 + p2 \div Wide
             low1 == p1 % Wide
             top == 100 + p1 \div Wide
             unit == IF top < 128 THEN 64 ELSE 128
             dropped == low3 % unit
             kept == low3 - dropped
             up == \/ 2 * dropped > unit
                   \/ 2 * dropped = unit /\ (kept \div unit) % 2 = 1
             raised == RaiseSignificand(low1, low2, kept + unit - 1)
         IN IF ~up
            THEN [zero |-> FALSE, f |-> x.f, top |-> top, low1 |-> low1,
                  low2 |-> low2, low3 |-> kept]
            ELSE [zero |-> FALSE, f |-> x.f,
                  top |-> IF raised.carry THEN top + 1 ELSE top,
                  low1 |-> raised.d1, low2 |-> raised.d2, low3 |-> raised.d3]

\* Math.round of a double that is not negative: its whole part, and one more
\* when the digit of weight one half is set
MathRound(y) ==
    IF y.zero THEN 0
    ELSE y.top \div 2^y.f
         + (IF y.f = 0 THEN y.low1 \div (Wide \div 2)
            ELSE (y.top \div 2^(y.f - 1)) % 2)

\* Math.round((correct / total) * 100)
Percentage(correct, total) == MathRound(TimesHundred(Divide(correct, total)))

-----------------------------------------------------------------------------
(* DataManager.categorizeMatches *)

NotCalled == [kind |-> "none"]
Returned(ms) == [kind |-> "returned", value |-> ms]

\* A Date field that is a string which is no number
NonNumeric == [tag |-> "string"]

\* a >= b and a < b, b a number: a value that is no number converts to NaN
\* (undefined, a non-numeric string), and every comparison with NaN is false
JsGreaterEq(a, b) == a.tag = "number" /\ a.v >= b
JsLess(a, b) == a.tag = "number" /\ a.v < b

HasResult(match) == match.info.FTHG # Null /\ match.info.FTAG # Null

IsUpcoming(match, today) == JsGreaterEq(match.info.Date, today) /\ ~HasResult(match)
IsUnresolved(match, today) == JsLess(match.info.Date, today) /\ ~HasResult(match)
IsResolved(match) == HasResult(match)

\* Array.prototype.sort with the comparator a.Date - b.Date (ascending) or
\* b.Date - a.Date: a stable sort when every Date is a number
RECURSIVE InsertByDate(_, _, _)
InsertByDate(sorted, m, ascending) ==
    IF sorted = <<>> THEN <<m>>
    ELSE LET h == Head(sorted)
             before == IF ascending THEN m.info.Date.v < h.info.Date.v
                                    ELSE m.info.Date.v > h.info.Date.v
         IN IF before THEN <<m>> \o sorted
            ELSE <<h>> \o InsertByDate(Tail(sorted), m, ascending)

RECURSIVE StableSortByDate(_, _)
StableSortByDate(ms, ascending) ==
    IF ms = <<>> THEN <<>>
    ELSE InsertByDate(StableSortByDate(SubSeq(ms, 1, Len(ms) - 1), ascending),
                      ms[Len(ms)], ascending)

OrdersOf(ms) ==
    {p \in [1..Len(ms) -> Range(ms)] : \A i, j \in 1..Len(ms) : p[i] = p[j] => i = j}

\* The orders sort may leave the list in: the stable order by Date, or, when
\* the comparator yields NaN for some pair (a Date that is no number), an
\* order the engine chooses
SortByDate(ms, ascending) ==
    IF \A i \in 1..Len(ms) : ms[i].info.Date.tag = "number"
    THEN {StableSortByDate(ms, ascending)}
    ELSE OrdersOf(ms)

\* DataManager.categorizeMatches: the results it may return
CategorizeMatches(ms, today) ==
    LET Up(m) == IsUpcoming(m, today)
        Un(m) == IsUnresolved(m, today)
    IN { [upcoming |-> up, unresolved |-> un, resolved |-> re] :
            up \in SortByDate(SelectSeq(ms, Up), TRUE),
            un \in SortByDate(SelectSeq(ms, Un), TRUE),
            re \in SortByDate(SelectSeq(ms, IsResolved), FALSE) }

-----------------------------------------------------------------------------
(* FilterPresetManager *)

\* An object without own properties
EmptyObject == [n \in {} |-> Null]

\* Object.assign(a, b) on the own properties: those of b win
Merge(a, b) ==
    [n \in (DOMAIN a) \cup (DOMAIN b) |-> IF n \in DOMAIN b THEN b[n] ELSE a[n]]

Criteria(search) ==
    [search |-> search, division |-> All, dateFrom |-> <<>>, dateTo |-> <<>>]

\* FilterPresetManager.getDefaultPresets
DefaultPresets ==
    [n \in {"A model expects dominant performance - From Goals",
            "A model expects dominant performance - From Win Prob",
            "A model expects dominant performance - From Win Prob (any %)",
            "All models aggree on BTTS (Y)",
            "Is this Football or Fusball?",
            "Goals in total agreement",
            "High Draw Probability",
            "All models Win Probability in agreement"} |->
        CASE n = "A model expects dominant performance - From Goals" ->
                Criteria(<<Marker, AtomGoalsDominant>>)
          [] n = "A model expects dominant performance - From Win Prob" ->
                Criteria(<<Marker, AtomWinDominant>>)
          [] n = "A model expects dominant performance - From Win Prob (any %)" ->
                Criteria(<<Marker, AtomSameMax>>)
          [] n = "All models aggree on BTTS (Y)" ->
                Criteria(<<Marker, AtomBtts>>)
          [] n = "Is this Football or Fusball?" ->
                Criteria(<<Marker, AtomFusball>>)
          [] n = "Goals in total agreement" ->
                Criteria(<<Marker, AtomGoalsAgree>>)
          [] n = "High Draw Probability" ->
                Criteria(<<Marker, AtomHighDraw>>)
          [] OTHER ->
                Criteria(<<Marker, " ", AtomWinAgree>>)]

\* The localStorage item: absent, a text JSON.parse rejects, or the JSON text
\* of an object of presets
StorageAbsent == [tag |-> "absent"]
StorageGarbage == [tag |-> "garbage"]
StorageJson(presets) == [tag |-> "json", presets |-> presets]

\* FilterPresetManager.loadFromStorage: JSON.parse(null) is null, replaced by {}
LoadFromStorage(st) ==
    CASE st.tag = "absent" -> [kind |-> "value", value |-> EmptyObject]
      [] st.tag = "garbage" -> Throw
      [] OTHER -> [kind |-> "value", value |-> st.presets]

\* FilterPresetManager.getAll, the own properties of the object it returns
GetAll(st) ==
    LET stored == LoadFromStorage(st) IN
    IF stored.kind = "throw" THEN EmptyObject
    ELSE Merge(DefaultPresets, stored.value)

\* The property key whose assignment sets the prototype of an object
\* literal instead of adding an own property, and which reads as
\* Object.prototype on every object that has no such own property
ProtoKey == "__proto__"

\* Object.prototype as load returns it: an object, none of the four fields
ObjectPrototype == [tag |-> "Object.prototype"]

\* presets[name] = {...filters}, on the own properties
AssignPreset(presets, name, filters) ==
    IF name = ProtoKey THEN presets
    ELSE Merge(presets, [n \in {name} |-> filters])

\* delete presets[name]
DeleteKey(presets, name) == [n \in (DOMAIN presets) \ {name} |-> presets[n]]

\* FilterPresetManager.save: the item it writes
Save(st, name, filters) == StorageJson(AssignPreset(GetAll(st), name, filters))

\* FilterPresetManager.load
Load(st, name) ==
    LET presets == GetAll(st) IN
    IF name \in DOMAIN presets THEN presets[name]
    ELSE IF name = ProtoKey THEN ObjectPrototype
    ELSE Null

\* FilterPresetManager.delete: the item it writes
Delete(st, name) == StorageJson(DeleteKey(GetAll(st), name))

\* FilterPresetManager.getNames; the sorted list of distinct keys is held as
\* the set of its elements
GetNames(st) == DOMAIN GetAll(st)

-----------------------------------------------------------------------------
(* DataManager.fetchMatches, ChartsManager.initialize *)

\* A JSON object or array, given by the list of its entries or items
Object(entries) == [tag |-> "object", entries |-> entries]

\* matchData[name]: the property of an object, undefined on a number or a
\* string
Property(matchData, name) ==
    IF name \in DOMAIN matchData THEN matchData[name] ELSE Undef

\* The loop of parseMatchData over Object.entries(rawData): an entry with
\* 'match-info' and 'model-predictions' is kept
RECURSIVE ParseEntries(_)
ParseEntries(entries) ==
    IF entries = <<>> THEN <<>>
    ELSE (IF /\ Property(Head(entries), "info") # Undef
             /\ Property(Head(entries), "models") # Undef
          THEN <<Head(entries)>> ELSE <<>>) \o ParseEntries(Tail(entries))

\* DataManager.parseMatchData: Object.entries throws on undefined, and
\* reading a property of an entry that is null throws
ParseMatchData(rawData) ==
    IF rawData = Undef THEN Throw
    ELSE IF \E i \in 1..Len(rawData.entries) : rawData.entries[i] = Null THEN Throw
    ELSE [kind |-> "value", value |-> ParseEntries(rawData.entries)]

\* title.replaceAll(' ', '-')
SpacesToDashes(s) == [i \in 1..Len(s) |-> IF s[i] = " " THEN "-" ELSE s[i]]

\* ChartsManager.getChartId
GetChartId(title) == SpacesToDashes(ToLowerCase(title))

\* The ids under which createAllCharts leaves a chart in ChartsManager.charts
ChartIds(metrics) ==
    {GetChartId(metrics.groupings.entries[i]) :
        i \in 1..Len(metrics.groupings.entries)}

\* The charts of a page: the Chart instances that have not been destroyed,
\* the registry (canvas id to instance), and the ids of the canvases an
\* instance of which has been destroyed
NoCharts == [objects |-> {}, registry |-> EmptyObject, destroyed |-> {}]

\* charts[id].destroy() when charts[id] is set
DestroyRegistered(st, id) ==
    IF id \in DOMAIN st.registry
    THEN [st EXCEPT !.objects = @ \ {st.registry[id]},
                    !.destroyed = @ \cup {id}]
    ELSE st

\* new Chart(ctx, config) on the canvas `id`: an instance that differs from
\* every instance of the canvas that has not been destroyed; n tells the
\* instances of a canvas apart
NewChart(objects, id) ==
    [canvas |-> id,
     n |-> CHOOSE k \in 1..(Cardinality(objects) + 1) :
              /\ [canvas |-> id, n |-> k] \notin objects
              /\ \A j \in 1..(k - 1) : [canvas |-> id, n |-> j] \in objects]

\* charts[id] = new Chart(ctx, config)
Register(st, id) ==
    LET chart == NewChart(st.objects, id)
    IN [st EXCEPT !.objects = @ \cup {chart},
                  !.registry = Merge(@, [i \in {id} |-> chart])]

\* createMultiMetricChart without the destroy of the registered instance
CreateMultiMetricChartKeeping(st, id) == Register(st, id)

\* The end of ChartsManager.createMultiMetricChart: the registered instance
\* is destroyed, a new one is constructed and registered.  The canvas is
\* there: addAllCanvas has written one for every grouping.
CreateMultiMetricChart(st, id) == Register(DestroyRegistered(st, id), id)

\* ChartsManager.createAllCharts over the titles of 'chart-groupings'
RECURSIVE CreateAllCharts(_, _)
CreateAllCharts(st, groupings) ==
    IF groupings = <<>> THEN st
    ELSE CreateAllCharts(CreateMultiMetricChart(st, GetChartId(Head(groupings))),
                         Tail(groupings))

\* createBarChart of the dashboard, and the same steps in
\* createTimelineChart, createProbabilityChart, createGoalsChart and
\* createWeeklyChart: nothing without the canvas
CreateBarChart(st, canvasId) ==
    IF canvasId \notin elements THEN st
    ELSE Register(DestroyRegistered(st, canvasId), canvasId)

\* ChartsManager.initialize(data) throws in addAllCanvas when data is
\* undefined or has no 'chart-groupings', and when the document has no
\* element 'charts-grid'
InitializeThrows(metrics) ==
    metrics = Undef \/ metrics.groupings = Undef \/ "charts-grid" \notin elements

\* The divisions populateDivisionFilter offers
DivisionsOf(ms) == {All} \cup {ms[i].info.Div : i \in 1..Len(ms)}

\* ChartsManager.modelNames
ModelNames ==
    { "rainforest", "xgboost", "neural-network", "poisson", "combined-rainforest",
      "combined-xgboost", "combined-neural-network" }

\* ChartsManager.calculateAccuracy, for counts correct <= total
CalculateAccuracy(correct, total) ==
    IF total > 0 THEN Percentage(correct, total) ELSE 0

\* The keys of the metrics that name a division: those with 'metrics'
GetAvailableDivisions(metrics) ==
    IF "divisions" \in DOMAIN metrics THEN DOMAIN metrics.divisions ELSE {}

\* ChartsManager.getMetricsForDivision: the 'metrics' of the division, {}
\* when the metrics hold no such key
GetMetricsForDivision(metrics, division) ==
    IF division \in GetAvailableDivisions(metrics)
    THEN metrics.divisions[division] ELSE << >>

\* The counts of a model for a metric pair: modelMetrics[pair.correct] || 0
\* and modelMetrics[pair.total] || 0
ModelCounts(metrics, division, model) ==
    LET m == GetMetricsForDivision(
                 metrics, IF division = "Overall" THEN "overall" ELSE division)
    IN IF model \in DOMAIN m THEN m[model] ELSE [correct |-> 0, total |-> 0]

\* The data of a dataset of createMultiMetricChart when the current division
\* is `division`: calculateAccuracy for each model name
Dataset(metrics, division) ==
    [model \in ModelNames |->
        CalculateAccuracy(ModelCounts(metrics, division, model).correct,
                          ModelCounts(metrics, division, model).total)]

-----------------------------------------------------------------------------
(* FootballAnalyticsApp *)

Categories == {"upcoming", "unresolved", "resolved"}
Tabs == Categories \cup {"charts"}

\* The messages Utils.showError displays
LoadError == "Failed to load match data. Please try again."
InitError == "Failed to initialize application. Please refresh the page."

\* The states of init in which the fetch is pending
Pending == {"awaitFetch", "awaitJson"}

\* updateMatchDisplays: applyFilters on each category
FilterEach(cat, filters) == [c \in Categories |-> ApplyFilters(cat[c], filters)]
EvalTextsEach(cat, filters) == UNION {EvalTexts(cat[c], filters) : c \in Categories}

\* The records of a list once the callback of applyFilters has run on them
AfterFilterAll(ms, filters) == [i \in 1..Len(ms) |-> AfterFilter(ms[i], filters)]

\* The canvases of the dashboard
DashCanvases ==
    { "leagueChart", "leagueGoalsChart", "forecastTypeAccuracyChart",
      "timelineChart", "probabilityChart", "goalsChart", "weeklyChart" }

\* The ids of the elements the render calls and the chart functions look up
PageElements ==
    {c \o "-matches" : c \in Categories} \cup {c \o "-no-matches" : c \in Categories}
        \cup {c \o "-count" : c \in Categories} \cup {"filters", "charts-grid"}
        \cup DashCanvases

\* FootballAnalyticsApp.renderMatches when AppState.currentTab is tab: it
\* returns when the list container is missing, and reads classList of the
\* no-matches element otherwise, which throws when that element is missing
RenderMatchesThrows(tab) ==
    (tab \o "-matches") \in elements /\ (tab \o "-no-matches") \notin elements

\* The uncaught exceptions once renderMatches has run for the tab
AfterRender(tab) ==
    IF RenderMatchesThrows(tab) THEN uncaught \cup {"renderMatches"} ELSE uncaught

\* FilterManager.hideFilters and showFilters read classList of the element
\* 'filters'
FiltersThrows == "filters" \notin elements

\* FootballAnalyticsApp.updateMatchDisplays when AppState.allMatches is the
\* list ms.  The lists of categorizeMatches and the filtered lists hold the
\* records of allMatches themselves, so what eval writes to a record shows in
\* allMatches and in the filtered lists; `categorized` keeps the lists as
\* categorizeMatches returned them.
UpdateMatchDisplays(ms, filters) ==
    \E cat \in CategorizeMatches(ms, currentDate) :
        /\ categorized' = Returned(cat)
        /\ filtered' = Returned([c \in Categories |->
                             AfterFilterAll(FilterEach(cat, filters)[c], filters)])
        /\ evalLog' = EvalTextsEach(cat, filters)
        /\ allMatches' = [i \in 1..Len(ms) |->
                             IF \E c \in Categories : ms[i] \in Range(cat[c])
                             THEN AfterFilter(ms[i], filters) ELSE ms[i]]

\* The DOMContentLoaded handler up to the first await: init calls
\* setupEventListeners, then loadData, and fetchMatches shows the loading
\* element, hides the error element and starts the fetch
DOMContentLoaded ==
    /\ pc = "start"
    /\ pc' = "awaitFetch"
    /\ listeners' = {"tabs", "filters", "chartsSelector"}
    /\ loading' = TRUE
    /\ errorShown' = "none"
    /\ UNCHANGED <<fetchResult, responseData, metricsData, allMatches, loads,
                   charts, chartData, divisionOptions, currentTab, filterVars,
                   catVars, presetVars, dashVars, pageVars, timeVars, chartVars>>

\* What follows the fetch, to the end of init: fetchMatches returns ms
\* (finally: the loading element is hidden), loadData stores it and calls
\* updateMatchDisplays, then initializeCharts, setupFilters,
\* setupPresetEventListeners and updatePresetList.  An exception of
\* updateMatchDisplays or of initializeCharts ends init, and the handler of
\* the rejected promise shows InitError.
FinishInit(ms, metrics, result) ==
    /\ fetchResult' = result
    /\ loading' = FALSE
    /\ metricsData' = metrics
    /\ UpdateMatchDisplays(ms, currentFilters)
    /\ IF RenderMatchesThrows(currentTab) \/ InitializeThrows(metrics)
       THEN /\ pc' = "failed"
            /\ errorShown' = InitError
            /\ UNCHANGED <<charts, chartData, divisionOptions, form, listeners,
                           presetOptions, presetSelected, chartInstances>>
       ELSE /\ pc' = "ready"
            /\ errorShown' = IF result = "failed" THEN LoadError ELSE errorShown
            /\ charts' = Returned(ChartIds(metrics))
            /\ chartInstances' =
                  CreateAllCharts(chartInstances, metrics.groupings.entries)
            /\ chartData' = Returned(Dataset(metrics, "Overall"))
            /\ divisionOptions' = DivisionsOf(ms)
            /\ form' = [form EXCEPT !.division = All]
            /\ listeners' = listeners \cup {"presets"}
            /\ presetOptions' = GetNames(storage)
            /\ presetSelected' = ""
    /\ UNCHANGED <<currentTab, loads, currentFilters, lastEvent, currentDate,
                   storage, lastSaved, lastDeleted, dashVars, pageVars, timeVars,
                   dashChartInstances>>

\* fetch rejects (network error): the catch block of fetchMatches
FetchRejects ==
    /\ pc = "awaitFetch"
    /\ FinishInit(<<>>, metricsData, "failed")
    /\ UNCHANGED responseData

\* fetch resolves with a response: response.json() is awaited when
\* response.ok, the catch block runs otherwise
FetchResponds(ok) ==
    /\ pc = "awaitFetch"
    /\ IF ok
       THEN /\ pc' = "awaitJson"
            /\ UNCHANGED <<loading, fetchResult, errorShown, metricsData,
                           allMatches, loads, listeners, charts, chartData,
                           divisionOptions, currentTab, filterVars, catVars,
                           presetVars, dashVars, pageVars, timeVars, chartVars>>
       ELSE FinishInit(<<>>, metricsData, "failed")
    /\ UNCHANGED responseData

\* response.json() rejects: the body is no JSON
JsonRejects ==
    /\ pc = "awaitJson"
    /\ FinishInit(<<>>, metricsData, "failed")
    /\ UNCHANGED responseData

\* response.json() resolves with the document doc: METRICS_DATA is assigned
\* before parseMatchData is called
JsonResolves(doc) ==
    /\ pc = "awaitJson"
    /\ responseData' = doc
    /\ LET parsed == ParseMatchData(doc.predictions) IN
       IF parsed.kind = "throw"
       THEN FinishInit(<<>>, doc.metrics, "failed")
       ELSE FinishInit(parsed.value, doc.metrics, "loaded")

\* A loadData call on the application after init, up to the first await:
\* fetchMatches shows the loading element, hides the error element and starts
\* the fetch
LoadData ==
    /\ pc = "ready"
    /\ Len(loads) < MaxLoads
    /\ loads' = Append(loads, [stage |-> "awaitFetch"])
    /\ loading' = TRUE
    /\ errorShown' = "none"
    /\ UNCHANGED <<pc, fetchResult, responseData, metricsData, allMatches,
                   listeners, charts, chartData, divisionOptions, currentTab,
                   filterVars, catVars, presetVars, dashVars, pageVars, timeVars, chartVars>>

\* The rest of the i-th loadData call: fetchMatches returns ms (finally: the
\* loading element is hidden), loadData stores it and calls
\* updateMatchDisplays
FinishLoad(i, ms, metrics, result) ==
    /\ loads' = [loads EXCEPT ![i] = [stage |-> "done", matches |-> ms,
                                      metrics |-> metrics]]
    /\ fetchResult' = result
    /\ loading' = FALSE
    /\ errorShown' = IF result = "failed" THEN LoadError ELSE errorShown
    /\ metricsData' = metrics
    /\ UpdateMatchDisplays(ms, currentFilters)
    /\ uncaught' = AfterRender(currentTab)
    /\ UNCHANGED <<pc, listeners, charts, chartData, divisionOptions, currentTab,
                   currentFilters, form, lastEvent, currentDate, presetVars,
                   dashVars, elements, timeVars, chartVars>>

\* The fetch of the i-th call rejects
LoadFetchRejects(i) ==
    /\ i \in 1..Len(loads)
    /\ loads[i].stage = "awaitFetch"
    /\ FinishLoad(i, <<>>, metricsData, "failed")
    /\ UNCHANGED responseData

\* The fetch of the i-th call resolves with a response
LoadFetchResponds(i, ok) ==
    /\ i \in 1..Len(loads)
    /\ loads[i].stage = "awaitFetch"
    /\ IF ok
       THEN /\ loads' = [loads EXCEPT ![i] = [stage |-> "awaitJson"]]
            /\ UNCHANGED <<pc, loading, fetchResult, errorShown, metricsData,
                           allMatches, listeners, charts, chartData,
                           divisionOptions, currentTab, filterVars, catVars,
                           presetVars, dashVars, pageVars, timeVars, chartVars>>
       ELSE FinishLoad(i, <<>>, metricsData, "failed")
    /\ UNCHANGED responseData

\* response.json() of the i-th call rejects
LoadJsonRejects(i) ==
    /\ i \in 1..Len(loads)
    /\ loads[i].stage = "awaitJson"
    /\ FinishLoad(i, <<>>, metricsData, "failed")
    /\ UNCHANGED responseData

\* response.json() of the i-th call resolves with the document doc
LoadJsonResolves(i, doc) ==
    /\ i \in 1..Len(loads)
    /\ loads[i].stage = "awaitJson"
    /\ responseData' = doc
    /\ LET parsed == ParseMatchData(doc.predictions) IN
       IF parsed.kind = "throw"
       THEN FinishLoad(i, <<>>, doc.metrics, "failed")
       ELSE FinishLoad(i, parsed.value, doc.metrics, "loaded")

\* FootballAnalyticsApp.applyFilters, the handler of the four filter controls,
\* once the control that raised the event has its new value
AppApplyFilters(controls) ==
    /\ "filters" \in listeners
    /\ form' = controls
    /\ currentFilters' = UpdateFiltersFromForm(controls)
    /\ UpdateMatchDisplays(allMatches, UpdateFiltersFromForm(controls))
    /\ lastEvent' = "applyFilters"
    /\ uncaught' = AfterRender(currentTab)
    /\ UNCHANGED <<appRest, currentDate, presetVars, dashVars, elements, chartVars>>

\* The input event of search-input with the run of applyFilters that follows
\* it once the wait of the debounced listener is over, no other event in
\* between
OnSearchInput(value) ==
    /\ AppApplyFilters([form EXCEPT !.search = value])
    /\ UNCHANGED timeVars
OnDivisionChange(value) ==
    /\ value \in divisionOptions
    /\ AppApplyFilters([form EXCEPT !.division = value])
    /\ UNCHANGED timeVars
OnDateFromChange(value) ==
    /\ AppApplyFilters([form EXCEPT !.dateFrom = value])
    /\ UNCHANGED timeVars
OnDateToChange(value) ==
    /\ AppApplyFilters([form EXCEPT !.dateTo = value])
    /\ UNCHANGED timeVars

\* The wait of the debounced listener of search-input, in milliseconds
Wait == 300

\* The time between two instants of the clock, in milliseconds
ClockStep == 100

\* The last instant at which an input event is taken, and the number of
\* input events taken
MaxClock == 800
MaxCalls == 3

\* `timeout` when no timer is pending
NoTimer == [pending |-> FALSE]

\* The calls logged so far
CallsIn(log) == {i \in 1..Len(log) : log[i].type = "call"}

\* A debounce that leaves a pending timer in place
DebouncedLeading(timer, now, call) ==
    IF timer.pending THEN timer
    ELSE [pending |-> TRUE, due |-> now + Wait, call |-> call]

\* The function Utils.debounce returns, called at `now` with the arguments
\* of the call numbered `call`: clearTimeout(timeout), then
\* timeout = setTimeout(later, wait), later holding these arguments
Debounced(timer, now, call) ==
    [pending |-> TRUE, due |-> now + Wait, call |-> call]

\* An input event of search-input: the control has its new value and the
\* debounced listener is called
SearchInput(value) ==
    LET call == Cardinality(CallsIn(debounceLog)) + 1 IN
    /\ "filters" \in listeners
    /\ call <= MaxCalls
    /\ clock + Wait <= MaxClock
    /\ form' = [form EXCEPT !.search = value]
    /\ searchTimer' = Debounced(searchTimer, clock, call)
    /\ debounceLog' =
          Append(debounceLog, [type |-> "call", at |-> clock, call |-> call])
    /\ UNCHANGED <<appVars, currentFilters, filtered, evalLog, lastEvent, catVars,
                   presetVars, dashVars, pageVars, clock, chartVars>>

\* The timer of the debounced listener fires, no earlier than the wait after
\* it was set: later() clears the timer and runs the wrapped function,
\* () => this.applyFilters()
SearchTimerFires ==
    /\ searchTimer.pending
    /\ clock >= searchTimer.due
    /\ searchTimer' = NoTimer
    /\ debounceLog' =
          Append(debounceLog,
                 [type |-> "run", at |-> clock, call |-> searchTimer.call])
    /\ AppApplyFilters(form)
    /\ UNCHANGED clock

\* Time passes
Tick ==
    /\ clock < MaxClock
    /\ clock' = clock + ClockStep
    /\ UNCHANGED <<appVars, filterVars, catVars, presetVars, dashVars, pageVars,
                   searchTimer, debounceLog, chartVars>>

\* FootballAnalyticsApp.clearFilters, the handler of the Clear button:
\* FilterManager.clearFilters, then updateMatchDisplays
OnClearFilters ==
    /\ "filters" \in listeners
    /\ currentFilters' = EmptyFilters
    /\ form' = EmptyFilters
    /\ UpdateMatchDisplays(allMatches, EmptyFilters)
    /\ lastEvent' = "clearFilters"
    /\ uncaught' = AfterRender(currentTab)
    /\ UNCHANGED <<appRest, currentDate, presetVars, dashVars, elements, timeVars, chartVars>>

\* FootballAnalyticsApp.switchTab, the handler of the tab buttons: the tab is
\* stored, then showFilters and updateMatchDisplays, or hideFilters for the
\* charts tab
OnTabClick(tab) ==
    /\ "tabs" \in listeners
    /\ currentTab' = tab
    /\ lastEvent' = "switchTab"
    /\ IF FiltersThrows
       THEN /\ uncaught' = uncaught \cup {IF tab # "charts" THEN "showFilters"
                                                          ELSE "hideFilters"}
            /\ UNCHANGED <<categorized, filtered, evalLog, allMatches>>
       ELSE IF tab # "charts"
       THEN /\ UpdateMatchDisplays(allMatches, currentFilters)
            /\ uncaught' = AfterRender(tab)
       ELSE UNCHANGED <<categorized, filtered, evalLog, allMatches, uncaught>>
    /\ UNCHANGED <<pc, loading, fetchResult, responseData, errorShown,
                   metricsData, loads, listeners, charts, chartData,
                   divisionOptions, currentFilters, form, currentDate, presetVars,
                   dashVars, elements, timeVars, chartVars>>

\* The change handler of charts-division-selector: ChartsManager.updateCharts
\* with the value of the chosen option.  The selector has options once
\* populateChartsDivisionSelector has run, one for each key of the metrics
\* that has a 'metrics' property.
OnChartsDivisionChange(division) ==
    /\ "chartsSelector" \in listeners
    /\ pc = "ready"
    /\ division \in GetAvailableDivisions(metricsData)
    /\ chartData' = Returned(Dataset(metricsData, division))
    /\ chartInstances' =
          CreateAllCharts(chartInstances, metricsData.groupings.entries)
    /\ UNCHANGED <<pc, loading, fetchResult, responseData, errorShown,
                   metricsData, allMatches, loads, listeners, charts,
                   divisionOptions, currentTab, filterVars, catVars, presetVars,
                   dashVars, pageVars, timeVars, dashChartInstances>>

\* Midnight passes: categorizeMatches reads the date anew at each call
DayPasses(lastDay) ==
    /\ currentDate < lastDay
    /\ currentDate' = currentDate + 1
    /\ UNCHANGED <<appVars, filterVars, categorized, presetVars, dashVars, pageVars, timeVars, chartVars>>

-----------------------------------------------------------------------------
(* The handlers setupPresetEventListeners installs *)

NoSave == [kind |-> "none"]
Saved(name, filters) == [kind |-> "saved", name |-> name, filters |-> filters]

\* presetSelect.value = name: the option of that value becomes the selected
\* one, and none when there is no such option
SelectValue(options, name) == IF name \in options THEN name ELSE ""

\* The click handler of confirm-save-preset, with the trimmed text of the
\* input preset-name
OnConfirmSave(name) ==
    /\ "presets" \in listeners
    /\ name # ""
    /\ storage' = Save(storage, name, currentFilters)
    /\ presetOptions' = GetNames(Save(storage, name, currentFilters))
    /\ presetSelected' =
           SelectValue(GetNames(Save(storage, name, currentFilters)), name)
    /\ lastSaved' = Saved(name, currentFilters)
    /\ lastDeleted' = lastDeleted \ {name}
    /\ UNCHANGED <<appVars, filterVars, catVars, dashVars, pageVars, timeVars, chartVars>>

\* FilterPresetManager.updateFormFromFilters: a select takes a value only if
\* it has an option of that value, and reads '' otherwise
UpdateFormFromFilters(filters, options) ==
    [search |-> filters.search,
     division |-> IF filters.division \in options THEN filters.division ELSE <<>>,
     dateFrom |-> filters.dateFrom,
     dateTo |-> filters.dateTo]

\* The change handler of preset-select, the user having chosen the option
\* `selected`: the loaded criteria go to the form, and applyFilters of the
\* application reads them back from the form
OnPresetSelect(selected) ==
    /\ "presets" \in listeners
    /\ selected \in presetOptions
    /\ presetSelected' = selected
    /\ lastEvent' = "presetSelect"
    /\ LET loaded == Load(storage, selected) IN
       IF loaded # Null
       THEN LET controls == UpdateFormFromFilters(loaded, divisionOptions) IN
            /\ form' = controls
            /\ currentFilters' = UpdateFiltersFromForm(controls)
            /\ UpdateMatchDisplays(allMatches, UpdateFiltersFromForm(controls))
            /\ uncaught' = AfterRender(currentTab)
       ELSE UNCHANGED <<form, currentFilters, categorized, filtered, evalLog,
                        allMatches, uncaught>>
    /\ UNCHANGED <<appRest, currentDate, storage, presetOptions, lastSaved,
                   lastDeleted, dashVars, elements, timeVars, chartVars>>

\* The click handler of delete-preset
OnDeletePreset ==
    /\ "presets" \in listeners
    /\ presetSelected # ""
    /\ storage' = Delete(storage, presetSelected)
    /\ presetOptions' = GetNames(Delete(storage, presetSelected))
    /\ presetSelected' = ""
    /\ lastDeleted' = lastDeleted \cup {presetSelected}
    /\ lastSaved' = IF lastSaved.kind = "saved" /\ lastSaved.name = presetSelected
                    THEN NoSave ELSE lastSaved
    /\ UNCHANGED <<appVars, filterVars, catVars, dashVars, pageVars, timeVars, chartVars>>

-----------------------------------------------------------------------------
(* The dashboard (part_001): records, prediction checks, aggregates *)

\* A JavaScript boolean, tagged as Null, Undef, Num and Str are
Bool(b) == [tag |-> "boolean", v |-> b]

\* One record of footballData; the fields week, result and prediction are
\* absent unless InWeek and WithOutcome set them
DashMatch(id, country, home, homeScore, awayScore, result, goals) ==
    [id |-> id, country |-> country, home |-> home,
     home_score |-> homeScore, away_score |-> awayScore,
     result_suggestion |-> result, goals_suggestion |-> goals,
     week |-> Undef, result |-> Undef, prediction |-> Undef]

InWeek(m, week) == [m EXCEPT !.week = week]
WithOutcome(m, result, prediction) ==
    [m EXCEPT !.result = result, !.prediction = prediction]

\* !!v
Truthy(v) ==
    CASE v.tag = "string" -> v.s # <<>>
      [] v.tag = "number" -> v.v # 0
      [] v.tag = "boolean" -> v.v
      [] OTHER -> FALSE

\* isMatchCompleted
IsMatchCompleted(m) ==
    /\ m.home_score # Null /\ m.home_score # Str(<<>>)
    /\ m.away_score # Null /\ m.away_score # Str(<<>>)

\* parseFloat of a score: the number, NaN for undefined and null
IsNumber(v) == v.tag = "number"

\* checkIsForecastCorrect
CheckIsForecastCorrect(m) ==
    IF ~Truthy(m.result_suggestion) \/ ~IsMatchCompleted(m) THEN Undef
    ELSE LET s == m.result_suggestion.s
             h == m.home_score
             a == m.away_score
             both == IsNumber(h) /\ IsNumber(a)
         IN Bool(\/ IncludesPiece(s, "1") /\ both /\ h.v > a.v
                 \/ IncludesPiece(s, "X") /\ both /\ h.v = a.v
                 \/ IncludesPiece(s, "2") /\ both /\ h.v < a.v)

\* checkIsGoalsCorrect; scores are whole numbers, so that a total above 2.5
\* is a total of 3 at least
CheckIsGoalsCorrect(m) ==
    IF ~Truthy(m.goals_suggestion) \/ ~IsMatchCompleted(m) THEN Undef
    ELSE LET s == m.goals_suggestion.s
             h == m.home_score
             a == m.away_score
             both == IsNumber(h) /\ IsNumber(a)
         IN Bool(\/ IncludesPiece(s, "Over 2.5") /\ both /\ h.v + a.v >= 3
                 \/ IncludesPiece(s, "Over 1.5") /\ both /\ h.v + a.v >= 2
                 \/ IncludesPiece(s, "Under 3.5") /\ both /\ h.v + a.v <= 3
                 \/ IncludesPiece(s, "BTTS Yes") /\ both /\ h.v > 0 /\ a.v > 0
                 \/ IncludesPiece(s, "BTTS No")
                        /\ ((IsNumber(h) /\ h.v = 0) \/ (IsNumber(a) /\ a.v = 0)))

\* A combined check that is true as soon as one of the two checks is
CheckIsBothCorrectEither(m) ==
    LET forecast == CheckIsForecastCorrect(m)
        goal == CheckIsGoalsCorrect(m)
    IN IF forecast # Undef /\ goal # Undef THEN Bool(forecast.v \/ goal.v)
       ELSE Undef

\* checkIsBothCorrect
CheckIsBothCorrect(m) ==
    LET forecast == CheckIsForecastCorrect(m)
        goal == CheckIsGoalsCorrect(m)
    IN IF forecast # Undef /\ goal # Undef THEN Bool(forecast.v /\ goal.v)
       ELSE Undef

\* The check function handed to an aggregation, by the name of its kind
Check(kind, m) ==
    CASE kind = "forecast" -> CheckIsForecastCorrect(m)
      [] kind = "goals" -> CheckIsGoalsCorrect(m)
      [] OTHER -> CheckIsBothCorrect(m)

\* getAccuracyByCountry(data, checkFn): the object stats at the end of the loop
GetAccuracyByCountry(data, kind) ==
    LET Counted(m) == IsMatchCompleted(m) /\ Check(kind, m) # Undef
        completed == SelectSeq(data, Counted)
        n == Len(completed)
    IN [c \in {completed[i].country : i \in 1..n} |->
           [correct |-> Cardinality({i \in 1..n :
                            /\ completed[i].country = c
                            /\ Check(kind, completed[i]) = Bool(TRUE)}),
            total |-> Cardinality({i \in 1..n : completed[i].country = c})]]

\* The percentages getAccuracyByCountry returns as `data`, by label
AccuracyData(stats) ==
    [c \in DOMAIN stats |->
        IF stats[c].total # 0 THEN Percentage(stats[c].correct, stats[c].total)
        ELSE 0]

\* calcAccuracy(matches, checkFn)
CalcAccuracy(matches, kind) ==
    LET valid == {i \in 1..Len(matches) : Check(kind, matches[i]) # Undef}
        correct == {i \in valid : Truthy(Check(kind, matches[i]))}
    IN IF Cardinality(valid) # 0
       THEN Percentage(Cardinality(correct), Cardinality(valid))
       ELSE 0

\* getUniqueValuesFromArray(completed, 'week'): the truthy weeks
Weeks(completed) ==
    {completed[i].week : i \in {j \in 1..Len(completed) : Truthy(completed[j].week)}}

\* createTimelineChart: accuracyData, by week.  A week's matches are the
\* completed records of that week, and the correct ones those whose fields
\* result and prediction are strictly equal.
TimelineData(data) ==
    LET completed == SelectSeq(data, IsMatchCompleted)
        WeekMatches(week) == {i \in 1..Len(completed) : completed[i].week = week}
        Correct(week) ==
            {i \in WeekMatches(week) : completed[i].result = completed[i].prediction}
    IN [week \in Weeks(completed) |->
           IF Cardinality(WeekMatches(week)) # 0
           THEN Percentage(Cardinality(Correct(week)), Cardinality(WeekMatches(week)))
           ELSE 0]

\* The keys getAccuracyByForecastType creates in stats
Types ==
    { <<"1">>, <<"X">>, <<"2">>, <<"1", "X">>, <<"2", "X">>, <<"1", "2">>,
      <<"Over 2.5">>, <<"Over 1.5">>, <<"Under 3.5">>, <<"BTTS Yes">>,
      <<"BTTS No">> }

\* m.x !== undefined && m.x != ''
Present(v) == v # Undef /\ v # Str(<<>>)

\* getAccuracyByForecastType: the object stats after the keys of total 0 are
\* deleted; a suggestion that is none of the keys throws (stats[...] is
\* undefined)
GetAccuracyByForecastType(data) ==
    LET n == Len(data)
        IsResult(i, t) ==
            Present(data[i].result_suggestion) /\ data[i].result_suggestion.s = t
        IsGoals(i, t) ==
            Present(data[i].goals_suggestion) /\ data[i].goals_suggestion.s = t
        Unknown(i) ==
            \/ /\ Present(data[i].result_suggestion)
               /\ data[i].result_suggestion.s \notin Types
            \/ /\ Present(data[i].goals_suggestion)
               /\ data[i].goals_suggestion.s \notin Types
        Total(t) ==
            Cardinality({i \in 1..n : IsResult(i, t)})
            + Cardinality({i \in 1..n : IsGoals(i, t)})
        Correct(t) ==
            Cardinality({i \in 1..n :
                IsResult(i, t) /\ Truthy(CheckIsForecastCorrect(data[i]))})
            + Cardinality({i \in 1..n :
                IsGoals(i, t) /\ Truthy(CheckIsGoalsCorrect(data[i]))})
    IN IF \E i \in 1..n : Unknown(i) THEN Throw
       ELSE [kind |-> "value",
             value |-> [t \in {u \in Types : Total(u) > 0} |->
                           [correct |-> Correct(t), total |-> Total(t)]]]

\* getBestLeague: the object stats at the end of the loop
BestLeagueStats(completed) ==
    LET n == Len(completed) IN
    [c \in {completed[i].country : i \in 1..n} |->
        [correct |-> Cardinality({i \in 1..n :
                         /\ completed[i].country = c
                         /\ CheckIsBothCorrect(completed[i]) = Bool(TRUE)}),
         total |-> Cardinality({i \in 1..n :
                       /\ completed[i].country = c
                       /\ CheckIsBothCorrect(completed[i]) # Undef})]]

\* The keys of stats in the order of their insertion
RECURSIVE KeysInOrder(_, _)
KeysInOrder(completed, seen) ==
    IF completed = <<>> THEN <<>>
    ELSE IF Head(completed).country \in seen
         THEN KeysInOrder(Tail(completed), seen)
         ELSE <<Head(completed).country>>
              \o KeysInOrder(Tail(completed), seen \cup {Head(completed).country})

\* A reduce in which a later league replaces the best one already when its
\* accuracy is as great
RECURSIVE ReduceBestLast(_, _, _)
ReduceBestLast(keys, stats, best) ==
    IF keys = <<>> THEN best.league
    ELSE LET s == stats[Head(keys)]
             asGreat ==
                 IF best.total = 0 THEN TRUE
                 ELSE IF s.total = 0 THEN best.correct = 0
                 ELSE s.correct * best.total >= best.correct * s.total
         IN ReduceBestLast(Tail(keys), stats,
                           IF asGreat
                           THEN [league |-> Head(keys), correct |-> s.correct,
                                 total |-> s.total]
                           ELSE best)

\* The reduce of getBestLeague: a later league replaces the best one when its
\* accuracy is strictly greater; accuracies correct/total are compared by
\* cross-multiplication.  best is [league, correct, total], total 0 for the
\* accuracy 0.
RECURSIVE ReduceBest(_, _, _)
ReduceBest(keys, stats, best) ==
    IF keys = <<>> THEN best.league
    ELSE LET s == stats[Head(keys)]
             greater ==
                 IF s.total = 0 THEN FALSE
                 ELSE IF best.total = 0 THEN s.correct > 0
                 ELSE s.correct * best.total > best.correct * s.total
         IN ReduceBest(Tail(keys), stats,
                       IF greater
                       THEN [league |-> Head(keys), correct |-> s.correct,
                             total |-> s.total]
                       ELSE best)

\* getBestLeague
GetBestLeague(completed) ==
    ReduceBest(KeysInOrder(completed, {}), BestLeagueStats(completed),
               [league |-> Str(<<>>), correct |-> 0, total |-> 0])

\* createMatchCard, up to its call of getCountryCode: the three checks of the
\* record
CardChecks(m) ==
    [match |-> m,
     isForecastCorrect |-> CheckIsForecastCorrect(m),
     isGoalsCorrect |-> CheckIsGoalsCorrect(m),
     isBothCorrect |-> CheckIsBothCorrect(m)]

\* renderForecasts, then renderResults: the cards of the records that are
\* not completed, then those of the completed ones
RenderCards(data) ==
    LET NotCompleted(m) == ~IsMatchCompleted(m)
        forecasts == SelectSeq(data, NotCompleted)
        results == SelectSeq(data, IsMatchCompleted)
    IN [i \in 1..Len(forecasts) |-> CardChecks(forecasts[i])]
       \o [i \in 1..Len(results) |-> CardChecks(results[i])]

\* getCountryCode throws on a country that is undefined: it is no key of
\* codes, and substring is read off undefined
GetCountryCodeThrows(country) == country = Undef

\* renderForecasts and renderResults build a card for every record of
\* filteredData
RenderThrows(data) == \E i \in 1..Len(data) : GetCountryCodeThrows(data[i].country)

-----------------------------------------------------------------------------
(* The dashboard's filters *)

\* The values of the seven filter controls, none chosen.  The controls of
\* the country, the league and the team search hold a string; the week
\* control holds the text of a week number, modelled by that number, since
\* match.week == filters.week compares the two as numbers; the controls of
\* the result type and the forecast type hold one of their fixed options.
NoDashFilters ==
    [country |-> Str(<<>>), countryHistorical |-> Str(<<>>), league |-> Str(<<>>),
     search |-> Str(<<>>), week |-> Str(<<>>), resultType |-> "",
     forecastType |-> ""]

\* The check of a result type once filterByResultType has called it: the
\* value of checks[type]?.(match), Undef for a type that is no key of checks
ResultTypeCheck(match, type) ==
    CASE type = "correct-forecasts" -> CheckIsForecastCorrect(match)
      [] type = "incorrect-forecasts" -> Bool(~Truthy(CheckIsForecastCorrect(match)))
      [] type = "correct-goals" -> CheckIsGoalsCorrect(match)
      [] type = "incorrect-goals" -> Bool(~Truthy(CheckIsGoalsCorrect(match)))
      [] type = "correct-combos" -> CheckIsBothCorrect(match)
      [] type = "incorrect-combos" -> Bool(~Truthy(CheckIsBothCorrect(match)))
      [] OTHER -> Undef

\* filterByResultType: checks[type]?.(match) ?? true, the value filter takes
\* as a truth value
FilterByResultType(match, type) ==
    IF type = "" \/ ~IsMatchCompleted(match) THEN TRUE
    ELSE LET r == ResultTypeCheck(match, type) IN
         IF r = Undef THEN TRUE ELSE Truthy(r)

\* filterByForecastType
FilterByForecastType(match, type) ==
    LET hasForecast == Truthy(match.result_suggestion)
        hasGoals == Truthy(match.goals_suggestion)
    IN CASE type = "forecast" -> hasForecast
         [] type = "goals" -> hasGoals
         [] type = "combo" -> hasForecast /\ hasGoals
         [] type = "only-forecast" -> hasForecast /\ ~hasGoals
         [] type = "only-goals" -> hasGoals /\ ~hasForecast
         [] OTHER -> TRUE

\* t?.toLowerCase().includes(search) for a team t: undefined when there is
\* no team
TeamIncludes(t, search) ==
    t.tag = "string" /\ Includes(ToLowerCase(t.s), ToLowerCase(search.s))

\* The callback of footballData.filter in applyFilters.  The records of the
\* model hold no away and no league.
DashFilterCallback(match, filters) ==
    /\ ~Truthy(filters.country) \/ match.country = filters.country
    /\ ~Truthy(filters.countryHistorical) \/ match.country = filters.countryHistorical
    /\ ~Truthy(filters.league)
    /\ ~Truthy(filters.search) \/ TeamIncludes(match.home, filters.search)
    /\ ~Truthy(filters.week) \/ match.week = filters.week
    /\ FilterByResultType(match, filters.resultType)
    /\ FilterByForecastType(match, filters.forecastType)

\* applyFilters of the dashboard: the new filteredData
DashFilter(data, filters) ==
    LET Test(match) == DashFilterCallback(match, filters) IN SelectSeq(data, Test)

-----------------------------------------------------------------------------
(* The dashboard's DOMContentLoaded handler and its timers *)

\* The chart functions updateDashboard hands to setTimeout, by growing delay
ChartTimers ==
    << "createLeagueChart", "createLeagueGoalsChart",
       "createForecastTypeAccuracyChart", "createTimelineChart",
       "createProbabilityChart", "createGoalsChart", "createWeeklyChart" >>

NoStats ==
    [bestLeague |-> NotCalled, bestLeagueStats |-> NotCalled,
     byCountryForecast |-> NotCalled, byCountryGoals |-> NotCalled,
     byForecastType |-> NotCalled, cards |-> NotCalled,
     forecastAcc |-> NotCalled, goalsAcc |-> NotCalled,
     leagueData |-> NotCalled, leagueGoalsData |-> NotCalled,
     timeline |-> NotCalled]

\* showLoading, then fetchFootballData up to its first await
DashDOMContentLoaded ==
    /\ dpc = "start"
    /\ dpc' = "awaitFetch"
    /\ overlay' = TRUE
    /\ UNCHANGED <<footballData, filteredData, dashForm, timers, dashStats,
                   appVars, filterVars, catVars, presetVars, pageVars, timeVars, chartVars>>

\* The rest of the handler once fetchFootballData has set footballData to
\* data: setupTabs, setupFilters, updateDashboard (which hands the chart
\* functions to setTimeout), renderForecasts, renderResults, and
\* setTimeout(hideLoading, 1000).  An exception of the rendering ends the
\* handler.
DashContinue(data) ==
    LET completed == SelectSeq(data, IsMatchCompleted) IN
    /\ footballData' = data
    /\ filteredData' = data
    /\ dashStats' = [dashStats EXCEPT
                        !.forecastAcc = Returned(CalcAccuracy(completed, "forecast")),
                        !.goalsAcc = Returned(CalcAccuracy(completed, "goals")),
                        !.bestLeague = Returned(GetBestLeague(completed)),
                        !.bestLeagueStats = Returned(BestLeagueStats(completed)),
                        !.cards = IF RenderThrows(data) THEN NotCalled
                                  ELSE Returned(RenderCards(data))]
    /\ IF RenderThrows(data)
       THEN /\ dpc' = "aborted"
            /\ timers' = timers \o ChartTimers
       ELSE /\ dpc' = "done"
            /\ timers' = timers \o ChartTimers \o <<"hideLoading">>
    /\ UNCHANGED <<overlay, dashForm, appVars, filterVars, catVars, presetVars,
                   pageVars, timeVars, chartVars>>

\* The bundled dataset the catch block of fetchFootballData falls back to
FallbackData ==
    << DashMatch(101, Str(<<"Austria">>), Str(<<"a">>), Num(2), Num(1),
                 Str(<<"1">>), Str(<<"Over 2.5">>)),
       DashMatch(102, Str(<<"Belgium">>), Str(<<"b">>), Null, Null,
                 Str(<<"X">>), Str(<<>>)) >>

DashFetchRejects ==
    /\ dpc = "awaitFetch"
    /\ DashContinue(FallbackData)

DashFetchResponds(ok) ==
    /\ dpc = "awaitFetch"
    /\ IF ok
       THEN /\ dpc' = "awaitJson"
            /\ UNCHANGED <<overlay, footballData, filteredData, dashForm, timers,
                           dashStats, appVars, filterVars, catVars, presetVars,
                           pageVars, timeVars, chartVars>>
       ELSE DashContinue(FallbackData)

DashJsonRejects ==
    /\ dpc = "awaitJson"
    /\ DashContinue(FallbackData)

\* response.json() resolves with rawData, a list or a single record: a
\* non-empty list whose first record has a truthy home is taken
DashJsonResolves(rawData, isArray) ==
    /\ dpc = "awaitJson"
    /\ LET data == IF isArray THEN rawData ELSE <<rawData>> IN
       IF data = <<>> \/ ~Truthy(data[1].home)
       THEN DashContinue(FallbackData)
       ELSE DashContinue(data)

\* The canvas of a chart function
CanvasOf(fn) ==
    CASE fn = "createLeagueChart" -> "leagueChart"
      [] fn = "createLeagueGoalsChart" -> "leagueGoalsChart"
      [] fn = "createForecastTypeAccuracyChart" -> "forecastTypeAccuracyChart"
      [] fn = "createTimelineChart" -> "timelineChart"
      [] fn = "createProbabilityChart" -> "probabilityChart"
      [] fn = "createGoalsChart" -> "goalsChart"
      [] OTHER -> "weeklyChart"

\* The timer at the head of the queue fires.  A chart function runs inside
\* try/catch; those of the probability, goals and weekly charts compute none
\* of the aggregates held in dashStats.
TimerFires ==
    /\ timers # <<>>
    /\ timers' = Tail(timers)
    /\ overlay' = IF Head(timers) = "hideLoading" THEN FALSE ELSE overlay
    /\ dashStats' =
         CASE Head(timers) = "createLeagueChart" ->
                [dashStats EXCEPT
                    !.byCountryForecast =
                        Returned(GetAccuracyByCountry(footballData, "forecast")),
                    !.leagueData = Returned(AccuracyData(
                        GetAccuracyByCountry(footballData, "forecast")))]
           [] Head(timers) = "createLeagueGoalsChart" ->
                [dashStats EXCEPT
                    !.byCountryGoals =
                        Returned(GetAccuracyByCountry(footballData, "goals")),
                    !.leagueGoalsData = Returned(AccuracyData(
                        GetAccuracyByCountry(footballData, "goals")))]
           [] Head(timers) = "createForecastTypeAccuracyChart" ->
                [dashStats EXCEPT !.byForecastType =
                    GetAccuracyByForecastType(footballData)]
           [] Head(timers) = "createTimelineChart" ->
                [dashStats EXCEPT !.timeline = Returned(TimelineData(footballData))]
           [] OTHER -> dashStats
    /\ dashChartInstances' =
         IF \/ Head(timers) = "hideLoading"
            \/ /\ Head(timers) = "createForecastTypeAccuracyChart"
               /\ GetAccuracyByForecastType(footballData).kind = "throw"
         THEN dashChartInstances
         ELSE CreateBarChart(dashChartInstances, CanvasOf(Head(timers)))
    /\ UNCHANGED <<dpc, footballData, filteredData, dashForm, appVars, filterVars,
                   catVars, presetVars, pageVars, timeVars, chartInstances>>

\* The cards on the page once renderForecasts and renderResults have run on
\* the records shown: a grid whose rendering throws keeps its cards, and so
\* does the results grid when the rendering of the forecasts throws
CardsAfterRender(cards, shown) ==
    LET NotCompleted(m) == ~IsMatchCompleted(m)
        CardCompleted(c) == IsMatchCompleted(c.match)
        forecasts == SelectSeq(shown, NotCompleted)
        results == SelectSeq(shown, IsMatchCompleted)
        old == IF cards.kind = "returned" THEN cards.value ELSE <<>>
    IN IF RenderThrows(forecasts) THEN cards
       ELSE IF RenderThrows(results)
       THEN Returned(RenderCards(forecasts) \o SelectSeq(old, CardCompleted))
       ELSE Returned(RenderCards(shown))

\* applyFilters of the dashboard, the listener of its seven filter controls,
\* once the control `field` has the value `value`: the controls are read,
\* footballData is filtered into filteredData, and the two grids are rendered
DashApplyFilters(field, value) ==
    /\ dpc \in {"done", "aborted"}
    /\ dashForm' = [dashForm EXCEPT ![field] = value]
    /\ filteredData' = DashFilter(footballData, dashForm')
    /\ dashStats' = [dashStats EXCEPT
                        !.cards = CardsAfterRender(@, filteredData')]
    /\ uncaught' = IF RenderThrows(filteredData')
                   THEN uncaught \cup {"getCountryCode"} ELSE uncaught
    /\ UNCHANGED <<dpc, overlay, footballData, timers, elements, appVars, filterVars,
                   catVars, presetVars, timeVars, chartVars>>

-----------------------------------------------------------------------------
(* Inputs of the checks *)

\* Days of the matches and of the current date
Day1 == NewDate(2025, 0, 31).t
Day2 == NewDate(2025, 1, 1).t
Day3 == NewDate(2025, 1, 2).t

DivA == <<"A">>
DivB == <<"B">>

\* Records as parseMatchData returns them; on Day2 the first is unresolved,
\* the second and third upcoming, the fourth resolved
FilterMatches ==
    { MkMatch(1, DivA, <<"a">>, <<"b">>, 2025, 1, 31, Num(Day1), Null, Null,
              [m \in {"rf"} |-> Pred(1, 8, 1, 10, 10)]),
      MkMatch(2, DivB, <<"B", "a">>, <<"a">>, 2025, 2, 1, Num(Day2), Null, Null,
              [m \in {"rf", "xgb"} |-> IF m = "rf" THEN Pred(6, 3, 1, 20, 5)
                                                   ELSE Pred(1, 8, 1, 10, 10)]),
      MkMatch(3, DivA, <<"b">>, <<"b">>, 2025, 2, 2, Num(Day3), Null, Null,
              [m \in {"xgb"} |-> Pred(7, 2, 1, 25, 5)]),
      MkMatch(4, DivB, <<"a">>, <<"a">>, 2025, 2, 1, Num(Day2), Num(2), Num(1),
              [m \in {"rf"} |-> Pred(2, 7, 1, 10, 10)]) }

SearchStrings ==
    { <<>>, <<"a">>, <<"B">>, <<"b", " ", "b">>,
      <<Marker, AtomTrue>>, <<Marker, AtomFalse>>, <<Marker, AtomNope>>,
      <<Marker, AtomHighDraw>>, <<Marker, " ", AtomRfDraw>>,
      <<Marker>>,
      <<"a", Marker, AtomTrue>>,
      <<Marker, AtomTrue, Marker, AtomFalse>> }

DivisionValues == {All, DivA, DivB}

DateValues == {<<>>, <<2025, 2, 1>>, <<2025, 2, 2>>}

\* The metrics of a well-formed document: the titles of its chart groupings
MetricsGood ==
    [groupings |-> Object(<< <<"M", "a", "t", "c", "h", " ", "R">>, <<"G">> >>)]

\* The item of the preset storage when the page is opened
InitialStorages ==
    { StorageAbsent,
      StorageGarbage,
      StorageJson([n \in {"other"} |-> Criteria(<<"b">>)]),
      StorageJson([n \in {"High Draw Probability"} |-> Criteria(<<"B">>)]) }

\* The main controller as constructed, before DOMContentLoaded, in a
\* document of whatever elements
AppStart ==
    /\ pc = "start"
    /\ loading \in BOOLEAN
    /\ fetchResult = "none"
    /\ responseData = Undef
    /\ errorShown = "none"
    /\ metricsData = Undef
    /\ allMatches = <<>>
    /\ loads = <<>>
    /\ listeners = {}
    /\ charts = NotCalled
    /\ chartData = NotCalled
    /\ divisionOptions = {All}
    /\ currentTab = "upcoming"
    /\ currentFilters = EmptyFilters
    /\ form = EmptyFilters
    /\ filtered = NotCalled
    /\ evalLog = {}
    /\ lastEvent = "none"
    /\ categorized = NotCalled
    /\ presetOptions = {}
    /\ presetSelected = ""
    /\ lastSaved = NoSave
    /\ lastDeleted = {}
    /\ uncaught = {}
    /\ clock = 0
    /\ searchTimer = NoTimer
    /\ debounceLog = <<>>
    /\ chartInstances = NoCharts

\* The dashboard before its DOMContentLoaded
DashStart ==
    /\ dpc = "start"
    /\ overlay \in BOOLEAN
    /\ footballData = <<>>
    /\ filteredData = <<>>
    /\ dashForm = NoDashFilters
    /\ timers = <<>>
    /\ dashStats = NoStats
    /\ dashChartInstances = NoCharts

\* The main controller when init has ended after a load of the matches ms
\* and of MetricsGood
ReadyState(ms) ==
    /\ pc = "ready"
    /\ loading = FALSE
    /\ fetchResult = "loaded"
    /\ responseData = [metrics |-> MetricsGood, predictions |-> Object(ms)]
    /\ errorShown = "none"
    /\ metricsData = MetricsGood
    /\ allMatches = ms
    /\ loads = <<>>
    /\ listeners = {"tabs", "filters", "chartsSelector", "presets"}
    /\ charts = Returned(ChartIds(MetricsGood))
    /\ chartData = Returned(Dataset(MetricsGood, "Overall"))
    /\ divisionOptions = DivisionsOf(ms)
    /\ currentTab = "upcoming"
    /\ currentFilters = EmptyFilters
    /\ form = EmptyFilters
    /\ \E cat \in CategorizeMatches(ms, currentDate) :
          /\ categorized = Returned(cat)
          /\ filtered = Returned(FilterEach(cat, EmptyFilters))
    /\ evalLog = {}
    /\ lastEvent = "none"
    /\ presetOptions = GetNames(storage)
    /\ presetSelected = ""
    /\ lastSaved = NoSave
    /\ lastDeleted = {}
    /\ elements = PageElements
    /\ uncaught = {}
    /\ clock = 0
    /\ searchTimer = NoTimer
    /\ debounceLog = <<>>
    /\ chartInstances = CreateAllCharts(NoCharts, MetricsGood.groupings.entries)

-----------------------------------------------------------------------------
(* The application from DOMContentLoaded on *)

\* Entries of the document's "model-predictions": two well-formed ones and
\* one without 'match-info'
RawEntries ==
    { MkMatch(2, DivB, <<"B", "a">>, <<"a">>, 2025, 2, 1, Num(Day2), Null, Null,
              [m \in {"rf"} |-> Pred(6, 3, 1, 20, 5)]),
      MkMatch(3, DivA, <<"b">>, <<"b">>, 2025, 2, 2, Num(Day3), Num(1), Num(1),
              [m \in {"xgb"} |-> Pred(7, 2, 1, 25, 5)]),
      [id |-> 5, info |-> Undef, models |-> [m \in {"rf"} |-> Pred(2, 7, 1, 10, 10)]] }

\* The documents response.json() may resolve with
Documents ==
    { [metrics |-> m, predictions |-> p] :
        m \in {MetricsGood, Undef, [groupings |-> Undef]},
        p \in {Object(l) : l \in DistinctLists(RawEntries, MaxMatches)}
              \cup {Undef, Object(<<Null>>)} }

LifeSearches == {<<"a">>, <<Marker, AtomTrue>>}

Init ==
    /\ AppStart
    /\ elements = PageElements
    /\ currentDate = Day2
    /\ storage \in InitialStorages
    /\ DashStart /\ overlay = FALSE

Next ==
    \/ DOMContentLoaded
    \/ FetchRejects
    \/ \E ok \in BOOLEAN : FetchResponds(ok)
    \/ JsonRejects
    \/ \E doc \in Documents : JsonResolves(doc)
    \/ \E value \in LifeSearches : OnSearchInput(value)
    \/ \E value \in DivisionValues : OnDivisionChange(value)
    \/ OnClearFilters
    \/ \E tab \in Tabs : OnTabClick(tab)

Spec == Init /\ [][Next]_vars

\* C3: when the data fetch fails, the match collection is empty, the message
\* of the failed load is shown, and init runs its remaining steps to the end:
\* charts initialised, division filter populated, preset listeners installed
\* and preset list filled.
C3_FetchFailureRecovered ==
    fetchResult = "failed" =>
        /\ allMatches = <<>>
        /\ errorShown = LoadError
        /\ pc = "ready"
        /\ charts.kind = "returned"
        /\ divisionOptions = DivisionsOf(allMatches)
        /\ "presets" \in listeners
        /\ presetOptions = GetNames(storage)

\* C9: until the fetch has ended and its result is stored, no categorisation
\* and no filter operation has run.
C9_NoFilteringWhilePending ==
    pc \in Pending \cup {"start"} =>
        /\ categorized = NotCalled
        /\ filtered = NotCalled

-----------------------------------------------------------------------------
(* The filter engine *)

FilterInit ==
    /\ currentDate = Day2
    /\ storage = StorageAbsent
    /\ \E ms \in DistinctLists(FilterMatches, MaxMatches) : ReadyState(ms)
    /\ DashStart /\ overlay = FALSE

FilterNext ==
    \/ \E value \in SearchStrings : OnSearchInput(value)
    \/ \E value \in DivisionValues : OnDivisionChange(value)
    \/ \E value \in DateValues : OnDateFromChange(value)
    \/ \E value \in DateValues : OnDateToChange(value)
    \/ OnClearFilters

SpecFilter == FilterInit /\ [][FilterNext]_vars

\* The search criterion of one match, free text or predicate expression
PassesSearch(match, filters) ==
    IF IsAdvancedSearch(filters) THEN PassesAdvancedSearch(match, filters)
    ELSE PassesTextSearch(match.info, filters)

\* C1: applyFilters retains a match if and only if the match satisfies the
\* search criterion (free text or predicate expression), the division
\* criterion, the date-from bound and the date-to bound, all at once.
C1_AllCriteriaCombined ==
    (categorized.kind = "returned" /\ filtered.kind = "returned") =>
        \A c \in Categories :
            \A i \in 1..Len(categorized.value[c]) :
                LET match == categorized.value[c][i] IN
                (match \in Range(filtered.value[c]))
                <=> /\ PassesSearch(match, currentFilters)
                    /\ PassesDivision(match.info, currentFilters)
                    /\ PassesDateFrom(match.info, currentFilters)
                    /\ PassesDateTo(match.info, currentFilters)

StartsWithMarker(s) == s # <<>> /\ s[1] = Marker

\* C7: the predicate-expression mode is entered exactly when the search string
\* starts with the marker, and the text evaluated is the whole of the search
\* string after the marker.
C7_MarkerIsPrefix ==
    (filtered.kind = "returned"
        /\ \E c \in Categories : categorized.value[c] # <<>>) =>
        /\ (evalLog # {}) <=> StartsWithMarker(currentFilters.search)
        /\ StartsWithMarker(currentFilters.search)
               => evalLog = {Tail(currentFilters.search)}

QueryThrows(match, filters) ==
    /\ IsAdvancedSearch(filters)
    /\ ApplyAdvancedFilters(match.models, AdvancedQuery(filters)).kind = "throw"

\* C8: a match for which the evaluation of the predicate expression throws is
\* retained, and the other matches of the list are still filtered by the
\* value of the expression: applyFilters returns, in the order of the input,
\* the matches whose evaluation threw or gave a truthy value, and no error is
\* shown.
C8_FailOpen ==
    (filtered.kind = "returned" /\ IsAdvancedSearch(currentFilters)) =>
        LET Kept(m) ==
                \/ QueryThrows(m, currentFilters)
                \/ ApplyAdvancedFilters(m.models, AdvancedQuery(currentFilters))
                       = Value(TRUE)
        IN /\ errorShown = "none"
           /\ \A c \in Categories :
                /\ filtered.value[c] = SelectSeq(categorized.value[c], Kept)
                /\ \A i \in 1..Len(categorized.value[c]) :
                      QueryThrows(categorized.value[c][i], currentFilters)
                      => categorized.value[c][i] \in Range(filtered.value[c])

\* C8 witness: in one list the expression threw for a match, which is
\* retained, and gave false for another match, which is dropped.
C8_Witness ==
    /\ filtered.kind = "returned"
    /\ \E c \in Categories :
          \E i, j \in 1..Len(categorized.value[c]) :
              /\ QueryThrows(categorized.value[c][i], currentFilters)
              /\ categorized.value[c][i] \in Range(filtered.value[c])
              /\ ~QueryThrows(categorized.value[c][j], currentFilters)
              /\ categorized.value[c][j] \notin Range(filtered.value[c])

\* C18: with empty criteria applyFilters returns its input list unchanged,
\* and clearFilters leaves the filter manager holding the empty criteria, so
\* that after Clear each tab lists every match of its category.
C18_ClearShowsAll ==
    /\ lastEvent = "clearFilters" => currentFilters = EmptyFilters
    /\ (currentFilters = EmptyFilters /\ filtered.kind = "returned") =>
          \A c \in Categories : filtered.value[c] = categorized.value[c]

\* Clear has run on a collection of two matches at least, after which a tab
\* lists a match
C18_Witness ==
    /\ lastEvent = "clearFilters"
    /\ Len(allMatches) >= 2
    /\ \E c \in Categories : Len(filtered.value[c]) >= 1

\* Searches of which one assigns to a prediction
PureSearches ==
    { <<"a">>, <<Marker, AtomRfDraw>>, <<Marker, AtomSetDraw>> }

PureNext ==
    \/ \E value \in PureSearches : OnSearchInput(value)
    \/ \E value \in DivisionValues : OnDivisionChange(value)
    \/ OnClearFilters

SpecPure == FilterInit /\ [][PureNext]_vars

\* Whether the list s is the list t with some of its elements left out
RECURSIVE IsSubsequence(_, _)
IsSubsequence(s, t) ==
    IF s = <<>> THEN TRUE
    ELSE IF t = <<>> THEN FALSE
    ELSE IF Head(s) = Head(t) THEN IsSubsequence(Tail(s), Tail(t))
    ELSE IsSubsequence(s, Tail(t))

\* C19: applyFilters is a pure, order-preserving filter.  In every step of a
\* handler that calls it, the filtered list of each category is a
\* subsequence of the list it was given, with no record altered; the match
\* collection and its records are as before the step; the criteria are those
\* the handler read from the form; and a call with the same lists and
\* criteria as the call before returns the same lists.
C19_PureFilter ==
    [][ /\ \A c \in Categories :
              IsSubsequence(filtered'.value[c], categorized'.value[c])
        /\ allMatches' = allMatches
        /\ currentFilters' = UpdateFiltersFromForm(form')
        /\ (categorized' = categorized /\ currentFilters' = currentFilters)
               => filtered' = filtered ]_vars

\* A match whose home team has a dash in its name, first-second: the name
\* takes two parts of the MatchId
Hyphenated(match, first, second) ==
    [match EXCEPT
        !.info.Home = first \o <<"-">> \o second,
        !.info.MatchId = SubSeq(@, 1, 4) \o <<Str(first), Str(second)>>
                             \o SubSeq(@, 6, 6)]

\* The matches of the filter engine, and one of 1 February 2025 with a
\* hyphenated home team
DateMatches ==
    FilterMatches \cup
    { Hyphenated(MkMatch(5, DivA, <<"a">>, <<"b">>, 2025, 2, 1, Num(Day2), Null, Null,
                         [m \in {"rf"} |-> Pred(1, 8, 1, 10, 10)]),
                 <<"a">>, <<"b">>) }

\* Values of the date controls: none, and days before, within and after the
\* dates of the matches
BoundValues ==
    {<<>>, <<2025, 1, 30>>, <<2025, 1, 31>>, <<2025, 2, 1>>, <<2025, 2, 2>>,
     <<2025, 2, 3>>}

DatesInit ==
    /\ currentDate = Day2
    /\ storage = StorageAbsent
    /\ \E ms \in DistinctLists(DateMatches, MaxMatches) : ReadyState(ms)
    /\ DashStart /\ overlay = FALSE

DatesNext ==
    \/ \E value \in BoundValues : OnDateFromChange(value)
    \/ \E value \in BoundValues : OnDateToChange(value)
    \/ OnClearFilters

SpecDates == DatesInit /\ [][DatesNext]_vars

\* The day of a match, and the day a date control names
DayOf(match) == match.info.Date.v
BoundDay(value) == NewDate(value[1], value[2] - 1, value[3]).t

\* C20: date bounds are inclusive.  With the other criteria empty a match is
\* retained if and only if its date is on or after dateFrom and on or before
\* dateTo, an absent bound imposing no constraint; so a range that excludes
\* the dates of all matches leaves every list empty.
C20_InclusiveBounds ==
    (filtered.kind = "returned" /\ currentFilters.search = <<>>
        /\ currentFilters.division = All) =>
        \A c \in Categories :
            \A i \in 1..Len(categorized.value[c]) :
                LET match == categorized.value[c][i] IN
                (match \in Range(filtered.value[c]))
                <=> /\ currentFilters.dateFrom # <<>>
                          => DayOf(match) >= BoundDay(currentFilters.dateFrom)
                    /\ currentFilters.dateTo # <<>>
                          => DayOf(match) <= BoundDay(currentFilters.dateTo)

-----------------------------------------------------------------------------
(* The categorizer *)

CatMatch(id, y, m, d, date, fthg, ftag) ==
    MkMatch(id, DivA, <<"a">>, <<"b">>, y, m, d, date, fthg, ftag,
            [model \in {"rf"} |-> Pred(5, 3, 2, 10, 10)])

\* Records parseMatchData accepts: 'match-info' and 'model-predictions' present
CatMatches ==
    { CatMatch(1, 2025, 1, 31, Num(Day1), Null, Null),
      CatMatch(2, 2025, 2, 1, Num(Day2), Null, Null),
      CatMatch(3, 2025, 2, 2, Num(Day3), Null, Null),
      CatMatch(4, 2025, 1, 31, Num(Day1), Num(2), Num(1)),
      CatMatch(5, 2025, 2, 2, Num(Day3), Num(0), Num(0)),
      CatMatch(6, 2025, 2, 1, Num(Day2), Num(1), Null),
      CatMatch(7, 2025, 2, 1, Undef, Null, Null),
      CatMatch(8, 2025, 2, 1, NonNumeric, Null, Null),
      CatMatch(9, 2025, 2, 1, Undef, Num(1), Num(1)) }

CatInit ==
    /\ currentDate = Day2
    /\ storage = StorageAbsent
    /\ \E ms \in DistinctLists(CatMatches, MaxMatches) : ReadyState(ms)
    /\ DashStart /\ overlay = FALSE

CatNext ==
    \/ \E tab \in Tabs : OnTabClick(tab)
    \/ DayPasses(Day3)

SpecCat == CatInit /\ [][CatNext]_vars

BucketsHolding(match, buckets) ==
    {name \in Categories : match \in Range(buckets[name])}

\* C2: categorizeMatches places every match of the collection in exactly one
\* of the buckets upcoming, unresolved, resolved.
C2_ExactlyOneBucket ==
    categorized.kind = "returned" =>
        \A i \in 1..Len(allMatches) :
            Cardinality(BucketsHolding(allMatches[i], categorized.value)) = 1

-----------------------------------------------------------------------------
(* The presets *)

PresetMatches ==
    << MkMatch(2, DivB, <<"B", "a">>, <<"a">>, 2025, 2, 1, Num(Day2), Null, Null,
               [m \in {"rf"} |-> Pred(1, 8, 1, 10, 10)]),
       MkMatch(3, DivA, <<"b">>, <<"b">>, 2025, 2, 2, Num(Day3), Null, Null,
               [m \in {"rf"} |-> Pred(7, 2, 1, 25, 5)]) >>

\* Names typed into preset-name: a new name, the name of a built-in preset,
\* the name of the prototype accessor
PresetNames == {"mine", "High Draw Probability", ProtoKey}

\* The options of preset-select the user picks among
OptionNames == PresetNames \cup {"other"}

PresetSearches == {<<"a">>}

PresetInit ==
    /\ currentDate = Day2
    /\ storage \in InitialStorages
    /\ ReadyState(PresetMatches)
    /\ DashStart /\ overlay = FALSE

PresetNext ==
    \/ \E name \in PresetNames : OnConfirmSave(name)
    \/ \E selected \in OptionNames : OnPresetSelect(selected)
    \/ OnDeletePreset
    \/ \E value \in PresetSearches : OnSearchInput(value)

SpecPreset == PresetInit /\ [][PresetNext]_vars

\* C4: a name that has been deleted, and not saved again since, is absent
\* from the preset list and loads no preset.
C4_DeleteIsEffective ==
    \A name \in lastDeleted :
        /\ name \notin GetNames(storage)
        /\ name \notin presetOptions
        /\ Load(storage, name) = Null

\* C5: after save(name, c), the reloaded list of presets holds name, and
\* load(name) gives criteria equal to c in search, division, dateFrom, dateTo.
C5_SaveLoadRoundTrip ==
    lastSaved.kind = "saved" =>
        /\ lastSaved.name \in GetNames(storage)
        /\ lastSaved.name \in presetOptions
        /\ Load(storage, lastSaved.name) = lastSaved.filters

-----------------------------------------------------------------------------
(* The dashboard *)

Austria == Str(<<"Austria">>)
Belgium == Str(<<"Belgium">>)

\* Records of a response
DashMatches ==
    { DashMatch(1, Austria, Str(<<"a">>), Num(2), Num(1),
                Str(<<"1">>), Str(<<"Over 2.5">>)),
      DashMatch(2, Austria, Str(<<"b">>), Null, Null,
                Str(<<"1">>), Str(<<>>)),
      DashMatch(3, Belgium, Str(<<"b">>), Num(0), Num(0),
                Str(<<"1", "X">>), Str(<<"BTTS No">>)),
      DashMatch(4, Undef, Str(<<"a">>), Num(1), Num(1),
                Str(<<"X">>), Undef),
      DashMatch(5, Belgium, Str(<<>>), Num(1), Num(2),
                Str(<<"2">>), Str(<<"Over 1.5">>)),
      DashMatch(6, Austria, Str(<<"a">>), Num(3), Num(0),
                Str(<<"2">>), Str(<<"Over 2.5", " ", "BTTS Yes">>)) }

DashInit ==
    /\ DashStart
    /\ AppStart /\ loading = FALSE
    /\ elements = PageElements
    /\ currentDate = Day2
    /\ storage = StorageAbsent

DashNext ==
    \/ DashDOMContentLoaded
    \/ DashFetchRejects
    \/ \E ok \in BOOLEAN : DashFetchResponds(ok)
    \/ DashJsonRejects
    \/ \E rawData \in DistinctLists(DashMatches, MaxMatches) :
          DashJsonResolves(rawData, TRUE)
    \/ \E rawData \in DashMatches : DashJsonResolves(rawData, FALSE)
    \/ TimerFires

SpecDash == DashInit /\ [][DashNext]_vars

\* Whether the evaluation of one kind is defined for a match: the match has
\* a result and carries a suggestion of that kind
Evaluated(kind, m) ==
    /\ IsMatchCompleted(m)
    /\ kind \in {"forecast", "both"} => Truthy(m.result_suggestion)
    /\ kind \in {"goals", "both"} => Truthy(m.goals_suggestion)

\* The counts a group should have, the group being the records of data at the
\* positions in `group`: those with a defined evaluation, and those of them
\* evaluated true
ExpectedCounts(data, group, kind) ==
    [correct |-> Cardinality({i \in group :
                     Evaluated(kind, data[i]) /\ Check(kind, data[i]) = Bool(TRUE)}),
     total |-> Cardinality({i \in group : Evaluated(kind, data[i])})]

\* The positions of the records of a country, and of a suggestion
OfCountry(data, c) == {i \in 1..Len(data) : data[i].country = c}
WithResult(data, t) == {i \in 1..Len(data) : data[i].result_suggestion = Str(t)}
WithGoals(data, t) == {i \in 1..Len(data) : data[i].goals_suggestion = Str(t)}

\* The groups of an aggregate the dashboard has computed
Groups(aggregate) ==
    IF aggregate.kind \in {"returned", "value"} THEN DOMAIN aggregate.value ELSE {}

\* C6: in every aggregation by group, the count of a group is the number of
\* its matches whose evaluation is defined, its correct count the number of
\* those evaluated true; a match without a result adds to no count.
C6_CountsDefinedEvaluations ==
    /\ \A c \in Groups(dashStats.byCountryForecast) :
          dashStats.byCountryForecast.value[c]
              = ExpectedCounts(footballData, OfCountry(footballData, c), "forecast")
    /\ \A c \in Groups(dashStats.byCountryGoals) :
          dashStats.byCountryGoals.value[c]
              = ExpectedCounts(footballData, OfCountry(footballData, c), "goals")
    /\ \A c \in Groups(dashStats.bestLeagueStats) :
          dashStats.bestLeagueStats.value[c]
              = ExpectedCounts(footballData, OfCountry(footballData, c), "both")
    /\ \A t \in Groups(dashStats.byForecastType) :
          LET forecasts == ExpectedCounts(footballData,
                                          WithResult(footballData, t), "forecast")
              goals == ExpectedCounts(footballData,
                                      WithGoals(footballData, t), "goals")
          IN dashStats.byForecastType.value[t]
                 = [correct |-> forecasts.correct + goals.correct,
                    total |-> forecasts.total + goals.total]

\* C10: the loading overlay is shown while the fetch is pending, and it is
\* hidden once the handler has ended and no timer is left to fire.
C10_LoadingEventuallyHidden ==
    /\ dpc \in Pending => overlay
    /\ (dpc \in {"done", "aborted"} /\ timers = <<>>) => ~overlay

-----------------------------------------------------------------------------
(* The accuracy evaluator, one record at a time *)

\* The values a score field takes in a response: absent, null, '', a number
ScoreValues == {Undef, Null, Str(<<>>), Num(0), Num(1), Num(2), Num(3)}

\* The outcome suggestions, and the record without one
ResultSuggestions ==
    {Undef, Str(<<>>), Str(<<"1">>), Str(<<"X">>), Str(<<"2">>),
     Str(<<"1", "X">>), Str(<<"2", "X">>), Str(<<"1", "2">>)}

\* The goals suggestions, and the record without one
GoalsSuggestions ==
    {Undef, Str(<<>>), Str(<<"Over 2.5">>), Str(<<"Over 1.5">>),
     Str(<<"Under 3.5">>), Str(<<"BTTS Yes">>), Str(<<"BTTS No">>)}

\* The single records of a response
EvalMatches ==
    { DashMatch(1, Austria, Str(<<"a">>), h, a, r, g) :
        h \in ScoreValues, a \in ScoreValues,
        r \in ResultSuggestions, g \in GoalsSuggestions }

EvalNext ==
    \/ DashDOMContentLoaded
    \/ DashFetchRejects
    \/ \E ok \in BOOLEAN : DashFetchResponds(ok)
    \/ DashJsonRejects
    \/ \E rawData \in EvalMatches : DashJsonResolves(rawData, FALSE)
    \/ TimerFires

SpecEval == DashInit /\ [][EvalNext]_vars

\* The cards the dashboard has rendered
Cards == IF dashStats.cards.kind = "returned" THEN dashStats.cards.value ELSE <<>>

\* C12: checkIsBothCorrect is undefined exactly when the outcome check or the
\* goals check is undefined, and when both are defined it is true if and only
\* if both are true.
C12_BothCorrect ==
    \A i \in 1..Len(Cards) :
        LET c == Cards[i] IN
        /\ (c.isBothCorrect = Undef)
               <=> (c.isForecastCorrect = Undef \/ c.isGoalsCorrect = Undef)
        /\ c.isBothCorrect # Undef
               => c.isBothCorrect = Bool(/\ c.isForecastCorrect = Bool(TRUE)
                                         /\ c.isGoalsCorrect = Bool(TRUE))

\* C12 witness: a card whose outcome check is true and whose goals check is
\* false, the combined check being false.
C12_Witness ==
    \E i \in 1..Len(Cards) :
        /\ Cards[i].isForecastCorrect = Bool(TRUE)
        /\ Cards[i].isGoalsCorrect = Bool(FALSE)
        /\ Cards[i].isBothCorrect = Bool(FALSE)

\* A result is recorded when both score fields hold a number
ResultRecorded(m) == IsNumber(m.home_score) /\ IsNumber(m.away_score)

HasSuggestion(v) == v \notin {Undef, Null, Str(<<>>)}

\* The numeric predicate of a goals bucket on whole-number scores
BucketHolds(bucket, home, away) ==
    CASE bucket = "Over 2.5" -> home + away >= 3
      [] bucket = "Over 1.5" -> home + away >= 2
      [] bucket = "Under 3.5" -> home + away <= 3
      [] bucket = "BTTS Yes" -> home > 0 /\ away > 0
      [] bucket = "BTTS No" -> home = 0 \/ away = 0
      [] OTHER -> FALSE

\* C13: checkIsGoalsCorrect is undefined when no result is recorded or the
\* record has no goals suggestion, and otherwise it is true if and only if
\* the scores satisfy the predicate of the suggested bucket.
C13_GoalsCorrect ==
    \A i \in 1..Len(Cards) :
        LET m == Cards[i].match IN
        Cards[i].isGoalsCorrect =
            IF ~ResultRecorded(m) \/ ~HasSuggestion(m.goals_suggestion) THEN Undef
            ELSE Bool(BucketHolds(m.goals_suggestion.s[1],
                                  m.home_score.v, m.away_score.v))

\* The outcome of a match from its final scores
ActualOutcome(home, away) ==
    IF home > away THEN "1" ELSE IF home = away THEN "X" ELSE "2"

\* C14: checkIsForecastCorrect is undefined when no result is recorded or the
\* record has no outcome suggestion, and otherwise it is true if and only if
\* the symbols of the suggestion hold the actual outcome.
C14_ForecastCorrect ==
    \A i \in 1..Len(Cards) :
        LET m == Cards[i].match IN
        Cards[i].isForecastCorrect =
            IF ~ResultRecorded(m) \/ ~HasSuggestion(m.result_suggestion) THEN Undef
            ELSE Bool(IncludesPiece(m.result_suggestion.s,
                                    ActualOutcome(m.home_score.v, m.away_score.v)))

-----------------------------------------------------------------------------
(* The percentages *)

\* Pairs of counts, correct of total
CountPairs == {<<0, 0>>, <<0, 1>>, <<1, 3>>, <<3, 4>>, <<23, 40>>, <<40, 40>>}

\* Metrics with counts of the model rainforest for 'overall' and for the
\* division E0
MetricsCounting(overall, division) ==
    [groupings |-> MetricsGood.groupings,
     divisions |->
        [d \in {"overall", "E0"} |->
            [model \in {"rainforest"} |->
                IF d = "overall"
                THEN [correct |-> overall[1], total |-> overall[2]]
                ELSE [correct |-> division[1], total |-> division[2]]]]]

AccuracyDocuments ==
    { [metrics |-> MetricsCounting(p, q), predictions |-> Object(<<>>)] :
        p \in CountPairs, q \in CountPairs }

\* A response of `total` completed records of one country, the first
\* `correct` of them with both suggestions right, the others with both wrong
Tally(correct, total) ==
    [i \in 1..total |->
        DashMatch(i, Austria, Str(<<"a">>), Num(2), Num(1),
                  IF i <= correct THEN Str(<<"1">>) ELSE Str(<<"2">>),
                  IF i <= correct THEN Str(<<"Over 2.5">>) ELSE Str(<<"BTTS No">>))]

\* The responses: the tallies, and one completed record without suggestions
AccuracyResponses ==
    {Tally(p[1], p[2]) : p \in CountPairs \ {<<0, 0>>}}
        \cup {<<DashMatch(1, Austria, Str(<<"a">>), Num(2), Num(1), Undef, Undef)>>}

AccuracyInit ==
    /\ AppStart
    /\ elements = PageElements
    /\ DashStart
    /\ currentDate = Day2
    /\ storage = StorageAbsent

AccuracyNext ==
    \/ DOMContentLoaded
    \/ FetchRejects
    \/ \E ok \in BOOLEAN : FetchResponds(ok)
    \/ JsonRejects
    \/ \E doc \in AccuracyDocuments : JsonResolves(doc)
    \/ \E division \in {"overall", "E0"} : OnChartsDivisionChange(division)
    \/ DashDOMContentLoaded
    \/ DashFetchRejects
    \/ \E ok \in BOOLEAN : DashFetchResponds(ok)
    \/ DashJsonRejects
    \/ \E rawData \in AccuracyResponses : DashJsonResolves(rawData, TRUE)
    \/ TimerFires

SpecAccuracy == AccuracyInit /\ [][AccuracyNext]_vars

\* round(100 * correct / count), halves upwards, and 0 for the count 0
Rounded(correct, count) ==
    IF count = 0 THEN 0 ELSE (200 * correct + count) \div (2 * count)

\* The completed records of footballData whose check of one kind is defined,
\* and those of them whose check is true
Defined(kind) ==
    {i \in 1..Len(footballData) :
        IsMatchCompleted(footballData[i]) /\ Check(kind, footballData[i]) # Undef}
JudgedTrue(kind) == {i \in Defined(kind) : Check(kind, footballData[i]) = Bool(TRUE)}

\* C15: every percentage of calcAccuracy, getAccuracyByCountry and
\* ChartsManager.calculateAccuracy is round(100 * correct / count) when the
\* count is above 0 and 0 when it is 0; 3 correct of 4 give 75.
C15_Percentages ==
    /\ chartData.kind = "returned" =>
          \E division \in {"Overall"} \cup GetAvailableDivisions(metricsData) :
              \A model \in ModelNames :
                  chartData.value[model]
                      = Rounded(ModelCounts(metricsData, division, model).correct,
                                ModelCounts(metricsData, division, model).total)
    /\ dashStats.forecastAcc.kind = "returned" =>
          dashStats.forecastAcc.value
              = Rounded(Cardinality(JudgedTrue("forecast")),
                        Cardinality(Defined("forecast")))
    /\ dashStats.goalsAcc.kind = "returned" =>
          dashStats.goalsAcc.value
              = Rounded(Cardinality(JudgedTrue("goals")), Cardinality(Defined("goals")))
    /\ \A c \in Groups(dashStats.leagueData) :
          dashStats.leagueData.value[c]
              = Rounded(dashStats.byCountryForecast.value[c].correct,
                        dashStats.byCountryForecast.value[c].total)
    /\ \A c \in Groups(dashStats.leagueGoalsData) :
          dashStats.leagueGoalsData.value[c]
              = Rounded(dashStats.byCountryGoals.value[c].correct,
                        dashStats.byCountryGoals.value[c].total)
    /\ Percentage(3, 4) = 75

-----------------------------------------------------------------------------
(* Best league and timeline *)

\* Records of a response: of two countries and two weeks; completed with both
\* suggestions right, with both wrong, with no suggestion, or not played yet;
\* and two records that carry the fields result and prediction
AggMatches ==
    { InWeek(DashMatch(1, country, Str(<<"a">>), scores[1], scores[2],
                       suggestions[1], suggestions[2]), week) :
        country \in {Austria, Belgium},
        week \in {Num(1), Num(2)},
        scores \in {<<Num(2), Num(1)>>},
        suggestions \in {<<Str(<<"1">>), Str(<<"Over 2.5">>)>>,
                         <<Str(<<"2">>), Str(<<"Over 2.5">>)>>,
                         <<Undef, Undef>>} }
    \cup
    { InWeek(DashMatch(1, country, Str(<<"a">>), Null, Null,
                       Str(<<"1">>), Str(<<"Over 2.5">>)), week) :
        country \in {Austria, Belgium}, week \in {Num(1), Num(2)} }
    \cup
    { WithOutcome(InWeek(DashMatch(1, Austria, Str(<<"a">>), Num(2), Num(1),
                                   Str(<<"1">>), Str(<<"Over 2.5">>)), Num(1)),
                  Str(<<"H">>), Str(<<"A">>)),
      WithOutcome(InWeek(DashMatch(1, Austria, Str(<<"a">>), Num(2), Num(1),
                                   Str(<<"2">>), Str(<<"Over 2.5">>)), Num(1)),
                  Str(<<"H">>), Str(<<"H">>)) }

\* A response of 8 records of Austria, 3 of them right, followed by 13 of
\* Belgium, 5 of them right: 37.5 and 38.46... per cent
NearTie ==
    [i \in 1..21 |->
        InWeek(DashMatch(i, IF i <= 8 THEN Austria ELSE Belgium, Str(<<"a">>),
                         Num(2), Num(1),
                         IF i <= 3 \/ (i > 8 /\ i <= 13)
                         THEN Str(<<"1">>) ELSE Str(<<"2">>),
                         Str(<<"Over 2.5">>)),
               Num(1))]

AggNext ==
    \/ DashDOMContentLoaded
    \/ DashFetchRejects
    \/ \E ok \in BOOLEAN : DashFetchResponds(ok)
    \/ DashJsonRejects
    \/ \E rawData \in ListsOver(AggMatches, MaxMatches) \cup {NearTie} :
          DashJsonResolves(rawData, TRUE)
    \/ TimerFires

SpecAgg == DashInit /\ [][AggNext]_vars

\* The completed records of footballData, the list getBestLeague is given
Completed == SelectSeq(footballData, IsMatchCompleted)

\* The position at which a group is first encountered
FirstOf(c) == CHOOSE i \in 1..Len(Completed) :
                  /\ Completed[i].country = c
                  /\ \A j \in 1..(i - 1) : Completed[j].country # c

\* Whether the accuracy correct/total of the counts s is below that of t, a
\* group without evaluation having the accuracy 0
Below(s, t) ==
    IF t.total = 0 THEN FALSE
    ELSE IF s.total = 0 THEN t.correct > 0
    ELSE s.correct * t.total < t.correct * s.total

\* C16 (as amended): getBestLeague returns the group with the highest
\* accuracy correct/total, not rounded, when that accuracy is above 0, the
\* first encountered of the groups that share it; it returns the empty
\* string when no group has an accuracy above 0.
C16_BestGroup ==
    dashStats.bestLeague.kind = "returned" =>
        LET stats == dashStats.bestLeagueStats.value
            best == dashStats.bestLeague.value
        IN IF \E c \in DOMAIN stats : stats[c].correct > 0
           THEN /\ best \in DOMAIN stats
                /\ \A c \in DOMAIN stats :
                      /\ ~Below(stats[best], stats[c])
                      /\ (~Below(stats[c], stats[best]) /\ c # best)
                             => FirstOf(best) < FirstOf(c)
           ELSE best = Str(<<>>)

\* Two groups share the highest accuracy, which is above 0, and the one
\* encountered first has been returned
C16_Witness ==
    /\ dashStats.bestLeague.kind = "returned"
    /\ dashStats.bestLeague.value = Belgium
    /\ dashStats.bestLeagueStats.value[Belgium].correct > 0
    /\ Austria \in DOMAIN dashStats.bestLeagueStats.value
    /\ ~Below(dashStats.bestLeagueStats.value[Austria],
              dashStats.bestLeagueStats.value[Belgium])
    /\ FirstOf(Belgium) < FirstOf(Austria)

\* C16 (as stated): getBestLeague returns the group with the highest
\* percentage among all groups, the first encountered of those that share it.
C16_HighestPercentage ==
    (dashStats.bestLeague.kind = "returned" /\ DOMAIN dashStats.bestLeagueStats.value # {}) =>
        LET stats == dashStats.bestLeagueStats.value
            best == dashStats.bestLeague.value
            Pct(c) == Rounded(stats[c].correct, stats[c].total)
        IN /\ best \in DOMAIN stats
           /\ \A c \in DOMAIN stats :
                 /\ Pct(c) <= Pct(best)
                 /\ (Pct(c) = Pct(best) /\ c # best) => FirstOf(best) < FirstOf(c)

\* The completed records of a week whose outcome evaluation is defined, and
\* those of them the evaluation judges true
DefinedInWeek(week) == {i \in Defined("forecast") : footballData[i].week = week}
TrueInWeek(week) == {i \in JudgedTrue("forecast") : footballData[i].week = week}

\* C17: for each week the charted value is round(100 * correct / count),
\* count being the number of the week's resolved matches with a defined
\* outcome evaluation and correct the number of those the accuracy evaluator
\* judges true.
C17_ByWeek ==
    \A week \in Groups(dashStats.timeline) :
        dashStats.timeline.value[week]
            = Rounded(Cardinality(TrueInWeek(week)), Cardinality(DefinedInWeek(week)))

-----------------------------------------------------------------------------
(* Loads that overlap *)

\* Two documents that differ in their matches and in their metrics
ReloadDocuments ==
    { [metrics |-> MetricsGood,
       predictions |-> Object(<<
           MkMatch(2, DivB, <<"B", "a">>, <<"a">>, 2025, 2, 1, Num(Day2), Null, Null,
                   [m \in {"rf"} |-> Pred(6, 3, 1, 20, 5)]) >>)],
      [metrics |-> MetricsCounting(<<3, 4>>, <<0, 1>>),
       predictions |-> Object(<<
           MkMatch(3, DivA, <<"b">>, <<"b">>, 2025, 2, 2, Num(Day3), Num(1), Num(1),
                   [m \in {"xgb"} |-> Pred(7, 2, 1, 25, 5)]) >>)] }

ReloadInit ==
    /\ currentDate = Day2
    /\ storage = StorageAbsent
    /\ \E ms \in DistinctLists(FilterMatches, 1) : ReadyState(ms)
    /\ DashStart /\ overlay = FALSE

ReloadNext ==
    \/ LoadData
    \/ \E i \in 1..MaxLoads : LoadFetchRejects(i)
    \/ \E i \in 1..MaxLoads, ok \in BOOLEAN : LoadFetchResponds(i, ok)
    \/ \E i \in 1..MaxLoads : LoadJsonRejects(i)
    \/ \E i \in 1..MaxLoads, doc \in ReloadDocuments : LoadJsonResolves(i, doc)

SpecReload == ReloadInit /\ [][ReloadNext]_vars

-----------------------------------------------------------------------------
(* The classification rule *)

\* The records of the categorizer, and two whose 'match-info' has no score
\* fields: one of the day before, one of the day after
ClassifyMatches ==
    CatMatches \cup
    { CatMatch(10, 2025, 2, 2, Num(Day3), Undef, Undef),
      CatMatch(11, 2025, 1, 31, Num(Day1), Undef, Undef) }

ClassifyInit ==
    /\ currentDate \in {Day1, Day2, Day3}
    /\ storage = StorageAbsent
    /\ \E ms \in DistinctLists(ClassifyMatches, MaxMatches) : ReadyState(ms)
    /\ DashStart /\ overlay = FALSE

ClassifyNext ==
    \/ \E tab \in Tabs : OnTabClick(tab)
    \/ OnClearFilters

SpecClassify == ClassifyInit /\ [][ClassifyNext]_vars

\* A final-score field is present when the record holds a number for it
ScorePresent(v) == v.tag = "number"

\* C21: a match is resolved if and only if both final-score fields are
\* present, whatever its date; a match without a result is upcoming when its
\* date is today or later and unresolved when its date is before today.  A
\* record whose score field is absent has no result.
C21_Classification ==
    categorized.kind = "returned" =>
        \A i \in 1..Len(allMatches) :
            LET match == allMatches[i]
                hasResult == /\ ScorePresent(match.info.FTHG)
                             /\ ScorePresent(match.info.FTAG)
                In(c) == match \in Range(categorized.value[c])
                dated == match.info.Date.tag = "number"
            IN /\ In("resolved") <=> hasResult
               /\ (~hasResult /\ dated /\ match.info.Date.v >= currentDate)
                      => In("upcoming")
               /\ (~hasResult /\ dated /\ match.info.Date.v < currentDate)
                      => In("unresolved")

-----------------------------------------------------------------------------
(* Malformed records of a document *)

\* Entries of "model-predictions": the well-formed ones and the one without
\* 'match-info' of RawEntries, an entry that is null and one that is a number
ParseRawEntries == RawEntries \cup {Null, Num(5)}

ParseDocuments ==
    { [metrics |-> MetricsGood, predictions |-> Object(l)] :
        l \in DistinctLists(ParseRawEntries, MaxMatches) }

ParseNext ==
    \/ DOMContentLoaded
    \/ FetchRejects
    \/ \E ok \in BOOLEAN : FetchResponds(ok)
    \/ JsonRejects
    \/ \E doc \in ParseDocuments : JsonResolves(doc)
    \/ \E tab \in Tabs : OnTabClick(tab)

SpecParse == Init /\ [][ParseNext]_vars

\* A record that is an object holding 'match-info' and 'model-predictions'
WellFormedEntry(e) ==
    e # Null /\ Property(e, "info") # Undef /\ Property(e, "models") # Undef

\* C22: once a document has been parsed, the match collection holds every
\* well-formed record of the document, in the document's order, and no
\* malformed one: a malformed record is skipped and does not abort the load.
C22_MalformedSkipped ==
    (responseData # Undef /\ pc \in {"ready", "failed"}) =>
        allMatches = SelectSeq(responseData.predictions.entries, WellFormedEntry)

-----------------------------------------------------------------------------
(* Documents that lack elements *)

\* The elements a document may lack
Lacking ==
    SUBSET {"upcoming-matches", "upcoming-no-matches", "resolved-no-matches",
            "upcoming-count", "filters", "charts-grid"}

DomDocuments ==
    { [metrics |-> MetricsGood, predictions |-> Object(l)] :
        l \in DistinctLists(RawEntries, MaxMatches) }

DomInit ==
    /\ AppStart
    /\ \E lacking \in Lacking : elements = PageElements \ lacking
    /\ currentDate = Day2
    /\ storage = StorageAbsent
    /\ DashStart /\ overlay = FALSE

DomNext ==
    \/ DOMContentLoaded
    \/ FetchRejects
    \/ \E ok \in BOOLEAN : FetchResponds(ok)
    \/ JsonRejects
    \/ \E doc \in DomDocuments : JsonResolves(doc)
    \/ \E value \in LifeSearches : OnSearchInput(value)
    \/ OnClearFilters
    \/ \E tab \in Tabs : OnTabClick(tab)

SpecDom == DomInit /\ [][DomNext]_vars

\* C23: a render call whose target element is missing is a no-op.  Whatever
\* elements the document lacks, no exception leaves renderMatches,
\* showFilters, hideFilters, the update of the tab counts or the creation of
\* the chart canvases: no handler ends with an uncaught exception, and after
\* a load of a well-formed document init runs to its end.
C23_MissingTargetNoOp ==
    /\ uncaught = {}
    /\ fetchResult = "loaded" => (pc # "failed" /\ errorShown # InitError)

-----------------------------------------------------------------------------
(* Totality of filtering and aggregation *)

\* The outcome suggestions built from the symbols 1, X and 2, one or two of
\* them in either order
OutcomeSuggestions ==
    LET symbols == {"1", "X", "2"} IN
    {Str(<<a>>) : a \in symbols}
        \cup {Str(p) : p \in {q \in symbols \X symbols : q[1] # q[2]}}

\* The goals buckets
GoalsBuckets ==
    {Str(<<b>>) : b \in {"Over 2.5", "Over 1.5", "Under 3.5", "BTTS Yes", "BTTS No"}}

\* Well-formed records, with and without result
TotalMatches ==
    { DashMatch(1, Austria, Str(<<"a">>), scores[1], scores[2], r, g) :
        scores \in {<<Null, Null>>, <<Num(2), Num(1)>>},
        r \in OutcomeSuggestions, g \in GoalsBuckets }

ResultTypes ==
    {"", "correct-forecasts", "incorrect-forecasts", "correct-goals",
     "incorrect-goals", "correct-combos", "incorrect-combos"}

TotalNext ==
    \/ DashDOMContentLoaded
    \/ DashFetchRejects
    \/ \E ok \in BOOLEAN : DashFetchResponds(ok)
    \/ DashJsonRejects
    \/ \E rawData \in TotalMatches : DashJsonResolves(rawData, FALSE)
    \/ TimerFires
    \/ \E value \in ResultTypes : DashApplyFilters("resultType", value)
    \/ \E value \in {Str(<<>>), Str(<<"a">>)} : DashApplyFilters("search", value)

SpecTotal == DashInit /\ [][TotalNext]_vars

\* C24: filtering and aggregation are total over well-formed matches.  For
\* outcome suggestions of the symbols 1, X, 2 in any order and any goals
\* bucket, with or without result, every aggregation returns a value and no
\* filter call throws.
C24_Total ==
    /\ dashStats.byForecastType.kind # "throw"
    /\ \A a \in {"bestLeague", "byCountryForecast", "byCountryGoals"} :
          dashStats[a].kind \in {"none", "returned"}
    /\ uncaught = {}

-----------------------------------------------------------------------------
(* The result-type filter *)

\* Single records of a response: with and without result, with and without
\* suggestions
ResultTypeMatches ==
    { DashMatch(1, Austria, Str(<<"a">>), h, a, r, g) :
        h \in {Null, Num(0), Num(2)}, a \in {Null, Num(0), Num(2)},
        r \in {Undef, Str(<<>>), Str(<<"1">>), Str(<<"X">>)},
        g \in {Undef, Str(<<"Over 2.5">>), Str(<<"BTTS No">>)} }

ResultTypeNext ==
    \/ DashDOMContentLoaded
    \/ DashFetchRejects
    \/ \E ok \in BOOLEAN : DashFetchResponds(ok)
    \/ DashJsonRejects
    \/ \E rawData \in ResultTypeMatches : DashJsonResolves(rawData, FALSE)
    \/ TimerFires
    \/ \E value \in ResultTypes : DashApplyFilters("resultType", value)

SpecResultType == DashInit /\ [][ResultTypeNext]_vars

\* The evaluation a result type is about, and the value it selects
KindOf(type) ==
    CASE type \in {"correct-forecasts", "incorrect-forecasts"} -> "forecast"
      [] type \in {"correct-goals", "incorrect-goals"} -> "goals"
      [] OTHER -> "both"
PolarityOf(type) ==
    type \in {"correct-forecasts", "correct-goals", "correct-combos"}

\* C28: with a result type selected, a completed match is retained only if
\* the evaluation of that kind is defined and has the selected polarity; so
\* no completed match is retained both under correct-* and under incorrect-*
\* of one kind.
C28_ResultTypePolarity ==
    dashForm.resultType # "" =>
        /\ \A i \in 1..Len(filteredData) :
              IsMatchCompleted(filteredData[i]) =>
                  Check(KindOf(dashForm.resultType), filteredData[i])
                      = Bool(PolarityOf(dashForm.resultType))
        /\ \A i \in 1..Len(footballData) :
              IsMatchCompleted(footballData[i]) =>
                  \A pair \in { <<"correct-forecasts", "incorrect-forecasts">>,
                                <<"correct-goals", "incorrect-goals">>,
                                <<"correct-combos", "incorrect-combos">> } :
                      ~ /\ FilterByResultType(footballData[i], pair[1])
                        /\ FilterByResultType(footballData[i], pair[2])

-----------------------------------------------------------------------------
(* The built-in presets *)

\* Whether a value load returns is a set of criteria
IsCriteria(v) ==
    DOMAIN v = {"search", "division", "dateFrom", "dateTo"}

\* C26: whatever the storage item holds (nothing, the JSON of presets, a
\* text JSON.parse rejects, or what saves and deletes have left), getNames
\* lists every built-in preset and load of a built-in name returns criteria.
C26_DefaultsAlwaysPresent ==
    \A name \in DOMAIN DefaultPresets :
        /\ name \in GetNames(storage)
        /\ IsCriteria(Load(storage, name))

-----------------------------------------------------------------------------
(* Selecting a preset *)

DivC == <<"C">>

\* Stored presets that set every field: one of a division the loaded matches
\* have, one of a division they have not
SelectStorages ==
    { StorageJson(
        [n \in {"other", "away"} |->
            IF n = "other"
            THEN [search |-> <<"b">>, division |-> DivA,
                  dateFrom |-> <<2025, 2, 1>>, dateTo |-> <<2025, 2, 2>>]
            ELSE [search |-> <<"a">>, division |-> DivC,
                  dateFrom |-> <<>>, dateTo |-> <<2025, 2, 2>>]]),
      StorageAbsent }

SelectInit ==
    /\ currentDate = Day2
    /\ storage \in SelectStorages
    /\ ReadyState(PresetMatches)
    /\ DashStart /\ overlay = FALSE

SelectNext ==
    \/ \E name \in {"mine"} : OnConfirmSave(name)
    \/ \E selected \in OptionNames \cup {"away"} : OnPresetSelect(selected)
    \/ OnDeletePreset
    \/ \E value \in PresetSearches : OnSearchInput(value)
    \/ \E value \in DivisionValues : OnDivisionChange(value)
    \/ \E value \in DateValues : OnDateFromChange(value)

SpecSelect == SelectInit /\ [][SelectNext]_vars

\* C29: when the user has selected an existing preset, the criteria in force
\* at the re-rendering of the lists are the stored criteria of that preset in
\* all four fields, also when the preset's division is none of the options
\* the division control offers.
C29_PresetRoundTrip ==
    (lastEvent = "presetSelect" /\ presetSelected # ""
        /\ Load(storage, presetSelected) # Null) =>
        currentFilters = Load(storage, presetSelected)

-----------------------------------------------------------------------------
(* The preset "Goals in total agreement" *)

AgreeNext ==
    \/ \E selected \in {"Goals in total agreement", "High Draw Probability"} :
          OnPresetSelect(selected)
    \/ OnClearFilters
    \/ \E tab \in Tabs : OnTabClick(tab)

SpecAgree == FilterInit /\ [][AgreeNext]_vars

\* Math.round of a number of tenths that is not negative
RoundTenths(t) == (t + 5) \div 10

\* Whether all models of a match agree on the rounded expected home goals and
\* on the rounded expected away goals
GoalsAgree(models) ==
    \A n, k \in DOMAIN models :
        /\ RoundTenths(models[n].H) = RoundTenths(models[k].H)
        /\ RoundTenths(models[n].A) = RoundTenths(models[k].A)

\* C30: with the preset "Goals in total agreement" in force, a match is
\* retained if and only if all its models agree on the rounded expected home
\* goals and on the rounded expected away goals.
C30_GoalsAgreement ==
    (filtered.kind = "returned"
        /\ currentFilters = DefaultPresets["Goals in total agreement"]) =>
        \A c \in Categories :
            \A i \in 1..Len(categorized.value[c]) :
                (categorized.value[c][i] \in Range(filtered.value[c]))
                <=> GoalsAgree(categorized.value[c][i].models)

-----------------------------------------------------------------------------
(* The debounced search *)

DebounceNext ==
    \/ \E value \in {<<>>, <<"a">>} : SearchInput(value)
    \/ SearchTimerFires
    \/ Tick
    \/ OnClearFilters

DebounceInit ==
    /\ currentDate = Day2
    /\ storage = StorageAbsent
    /\ \E ms \in {l \in DistinctLists(FilterMatches, MaxMatches) : Len(l) = 1} :
          ReadyState(ms)
    /\ DashStart /\ overlay = FALSE

\* Time passes, and the event loop runs the callback of a timer that is due
SpecDebounce ==
    DebounceInit /\ [][DebounceNext]_vars /\ WF_vars(Tick) /\ WF_vars(SearchTimerFires)

\* Every run follows the last call directly, has its arguments, and comes no
\* earlier than the wait after it; with no timer pending, the last call has
\* been followed by a run
RunsAfterWait ==
    /\ \A p \in 1..Len(debounceLog) :
          debounceLog[p].type = "run" =>
             /\ p > 1
             /\ debounceLog[p - 1].type = "call"
             /\ debounceLog[p].call = debounceLog[p - 1].call
             /\ debounceLog[p].at >= debounceLog[p - 1].at + Wait
    /\ (~searchTimer.pending /\ debounceLog # <<>>) =>
          debounceLog[Len(debounceLog)].type = "run"

\* C25: the function wrapped by Utils.debounce runs only when the wait has
\* elapsed since the last call with no further call; calls that follow each
\* other with no run in between (a burst) cause one run, after the last of
\* them and with its arguments; and every call is eventually followed by a
\* run.
C25_Debounce ==
    /\ []RunsAfterWait
    /\ (searchTimer.pending ~> ~searchTimer.pending)

C25_Witness ==
    /\ Len(debounceLog) >= 3
    /\ debounceLog[Len(debounceLog)].type = "run"
    /\ debounceLog[Len(debounceLog)].call >= 2
    /\ debounceLog[Len(debounceLog) - 2].type = "call"
    /\ debounceLog[Len(debounceLog) - 1].at - debounceLog[Len(debounceLog) - 2].at < Wait
    /\ debounceLog[Len(debounceLog) - 1].at > debounceLog[Len(debounceLog) - 2].at

-----------------------------------------------------------------------------
(* The chart instances *)

\* Metrics whose groupings have the given titles, with counts for 'overall'
\* and for the division E0
MetricsTitled(titles) ==
    [groupings |-> Object(titles),
     divisions |-> MetricsCounting(<<1, 3>>, <<3, 4>>).divisions]

\* Groupings with distinct ids, with the same title twice, and with two
\* titles of one id
ChartDocuments ==
    { [metrics |-> MetricsTitled(titles), predictions |-> Object(<<>>)] :
        titles \in { MetricsGood.groupings.entries,
                     << <<"G">>, <<"G">> >>,
                     << <<"A", " ", "b">>, <<"a", "-", "b">>, <<"G">> >> } }

ChartsNext ==
    \/ DOMContentLoaded
    \/ FetchRejects
    \/ \E ok \in BOOLEAN : FetchResponds(ok)
    \/ JsonRejects
    \/ \E doc \in ChartDocuments : JsonResolves(doc)
    \/ \E division \in {"overall", "E0"} : OnChartsDivisionChange(division)
    \/ DashDOMContentLoaded
    \/ DashFetchRejects
    \/ \E ok \in BOOLEAN : DashFetchResponds(ok)
    \/ DashJsonRejects
    \/ \E rawData \in {Tally(1, 3), Tally(0, 1)} : DashJsonResolves(rawData, TRUE)
    \/ TimerFires

SpecCharts == AccuracyInit /\ [][ChartsNext]_vars

\* No canvas has two instances that have not been destroyed, and the
\* registry entry of the canvas of such an instance is that instance
OneLiveChart(st) ==
    /\ \A a, b \in st.objects : a.canvas = b.canvas => a = b
    /\ \A c \in st.objects :
          c.canvas \in DOMAIN st.registry /\ st.registry[c.canvas] = c

\* C27: on the main page and on the dashboard, each canvas id has at most one
\* Chart instance that has not been destroyed, and the registry entry of the
\* id refers to it.
C27_OneChartPerCanvas ==
    OneLiveChart(chartInstances) /\ OneLiveChart(dashChartInstances)

C27_Witness ==
    /\ \E id \in chartInstances.destroyed :
          chartInstances.registry[id] \in chartInstances.objects
    /\ dashChartInstances.objects # {}

====
